---- MODULE Spec2Model ----
(***************************************************************************)
(* A model of the connate service supervisor: the per-service state        *)
(* machine (connate/next_state.rs), the main loop with its poll timeout    *)
(* (connate/main.rs, connate/poll.rs), signal and request handling         *)
(* (connate/handle_signal.rs, connate/handle_request.rs) and the child     *)
(* processes it spawns (connate/spawn.rs).                                 *)
(*                                                                         *)
(* Service indices are 1..N here (0..N-1 in the source).  Time is counted  *)
(* in whole milliseconds.  Index arrays of the configuration are sets: the *)
(* loops over them apply the same idempotent write to each element.        *)
(***************************************************************************)
EXTENDS Integers, Sequences, FiniteSets, TLC

----------------------------------------------------------------------------
(* Program constants *)

UP_TIME_MILLIS == 1000
FORCED_DOWN_TIME_MILLIS == 1000
I32_MAX == 2147483647

SIGTERM == 15
SIGKILL == 9

(* Option::None of pid, exit code, timeout and attempt limit *)
NoPid == 0
NoCode == -1
NoLimit == -1

----------------------------------------------------------------------------
(* Bounds of the model *)

\* granularity of the clock and of the configured timeouts
Tick == 1000
\* the clock stops advancing here
MaxNow == 3000
\* process ids are 2..MaxPid; fork fails when none is free
MaxPid == 4
\* the operator sends at most this many commands (set-target requests and
\* shutdown signals)
MaxCommands == 1
\* largest attempt_count the retry-delay function is evaluated at
MaxDelayAttempt == 34
\* number of peers (control-tool instances and supervisors) that connect
MaxPeers == 2

----------------------------------------------------------------------------
(* Enumerations *)

States == {"Down", "WaitingToStart", "SettingUp", "Starting", "Up",
           "WaitingToStop", "Stopping", "CleaningUp", "Retrying", "Failed",
           "ForceDown", "CannotStop"}

Targets == {"Down", "Up", "Restart", "Once"}

Pids == 2..MaxPid

----------------------------------------------------------------------------
(* Service configuration: the user-facing relations and phases *)

\* a service name is a string of bytes; the empty one stands for the default
\* name "unspecified-service-name"
DEFAULT_SERVICE ==
  [ name |-> <<>>, init_target |-> "Up",
    needs |-> {}, wants |-> {}, conflicts |-> {}, groups |-> {}, log |-> 0,
    setup |-> "None", run |-> "None", ready |-> "Immediately",
    cleanup |-> "None", stop_all_children |-> FALSE,
    max_setup_time_millis |-> Tick,
    max_ready_time_millis |-> Tick,
    max_stop_time_millis |-> Tick,
    max_cleanup_time_millis |-> Tick,
    retry_wait_period_millis |-> 0,
    retry_wait_multiplier |-> 1,
    max_attempt_count |-> 1 ]

----------------------------------------------------------------------------
(* Build-time validation of a service table (build/check.rs) *)

\* the nodes reachable from the set `from` by one or more `edges` steps
RECURSIVE Reach(_, _, _)
Reach(edges, from, seen) ==
  LET next == UNION {edges[k] : k \in from} \ seen
  IN  IF next = {} THEN seen ELSE Reach(edges, next, seen \cup next)

LogSink(c, i) == IF c[i].log = 0 THEN {} ELSE {c[i].log}

\* needs, wants and log sink: what must be Up before a service starts
StartEdges(c) == [i \in DOMAIN c |-> c[i].needs \cup c[i].wants \cup LogSink(c, i)]

\* services an upward target is propagated to
UpEdges(c) ==
  [i \in DOMAIN c |-> c[i].needs \cup c[i].wants \cup c[i].groups \cup LogSink(c, i)]

\* services that need, want, group or log into i
ReverseEdges(c) == [i \in DOMAIN c |-> {k \in DOMAIN c : i \in UpEdges(c)[k]}]

\* services a downward target is propagated to, as the validator walks them
DownEdges(c) == [i \in DOMAIN c |-> c[i].groups \cup ReverseEdges(c)[i]]

ConflictEdges(c) == [i \in DOMAIN c |-> c[i].conflicts]

check_dependency(c, i, deps) == i \notin deps /\ deps \subseteq DOMAIN c

check_wants(c, i) == check_dependency(c, i, c[i].wants) /\ c[i].wants \cap c[i].needs = {}

check_ready(c, i) == c[i].run = "None" => c[i].ready = "Immediately"

check_log(c, i) ==
  c[i].log # 0 =>
    /\ c[i].log # i
    /\ c[i].log \in DOMAIN c
    /\ c[i].log \notin c[i].conflicts
    /\ i \notin c[c[i].log].conflicts
    /\ c[c[i].log].run # "None"

check_duration(d) == d <= I32_MAX

check_start_stop_cycle(c, i) == i \notin Reach(StartEdges(c), {i}, {})

check_target_up_stable(c, i) ==
  LET ups   == {i} \cup Reach(UpEdges(c), {i}, {})
      confl == UNION {c[k].conflicts : k \in ups}
  IN  i \notin confl \cup Reach(DownEdges(c), confl, {})

\* no two services have the same name
check_name_uniqueness(c) ==
  \A i, k \in DOMAIN c : c[i].name = c[k].name => i = k

\* no service inherited the default name
check_name_default(c) == \A i \in DOMAIN c : c[i].name # DEFAULT_SERVICE.name

check_config(c) ==
  /\ check_name_uniqueness(c)
  /\ check_name_default(c)
  /\ \A i \in DOMAIN c :
       /\ check_dependency(c, i, c[i].needs)
       /\ check_wants(c, i)
       /\ check_dependency(c, i, c[i].conflicts)
       /\ check_dependency(c, i, c[i].groups)
       /\ check_ready(c, i)
       /\ check_log(c, i)
       /\ check_duration(c[i].max_setup_time_millis)
       /\ check_duration(c[i].max_ready_time_millis)
       /\ check_duration(c[i].max_stop_time_millis)
       /\ check_duration(c[i].max_cleanup_time_millis)
       /\ check_duration(c[i].retry_wait_period_millis)
       /\ check_start_stop_cycle(c, i)
       /\ check_target_up_stable(c, i)

----------------------------------------------------------------------------
(* The precomputed index arrays of the internal configuration.  The build  *)
(* step that generates them is described by the specification only.        *)

stop_dependencies(c, i) == ReverseEdges(c)[i]

target_up_propagate_up(c, i) == Reach(UpEdges(c), {i}, {}) \ {i}

target_down_propagate_down(c, i) == Reach(ReverseEdges(c), {i}, {}) \ {i}

target_up_propagate_down(c, i) ==
  LET confl == UNION {c[k].conflicts : k \in {i} \cup target_up_propagate_up(c, i)}
  IN  (confl \cup Reach(ReverseEdges(c), confl, {})) \ {i}

\* the services whose transition guards read the state of i
propagate_dirty(c, i) ==
  {k \in DOMAIN c : i \in c[k].needs \cup c[k].wants \cup c[k].conflicts
                      \cup stop_dependencies(c, k)} \ {i}

is_logger(c, i) == \E k \in DOMAIN c : c[k].log = i

\* the internal configuration of one service table
generate_internal_config(c) ==
  [i \in DOMAIN c |->
     [ index |-> i, name |-> c[i].name,
       init_target |-> c[i].init_target,
       needs |-> c[i].needs, wants |-> c[i].wants,
       conflicts |-> c[i].conflicts, groups |-> c[i].groups,
       stop_dependencies |-> stop_dependencies(c, i),
       target_up_propagate_up |-> target_up_propagate_up(c, i),
       target_up_propagate_down |-> target_up_propagate_down(c, i),
       target_down_propagate_down |-> target_down_propagate_down(c, i),
       propagate_dirty |-> propagate_dirty(c, i),
       setup |-> c[i].setup, run |-> c[i].run, ready |-> c[i].ready,
       cleanup |-> c[i].cleanup,
       stop_all_children |-> c[i].stop_all_children,
       max_setup_time_millis |-> c[i].max_setup_time_millis,
       max_ready_time_millis |-> c[i].max_ready_time_millis,
       max_stop_time_millis |-> c[i].max_stop_time_millis,
       max_cleanup_time_millis |-> c[i].max_cleanup_time_millis,
       retry_wait_period_millis |-> c[i].retry_wait_period_millis,
       retry_wait_multiplier |-> c[i].retry_wait_multiplier,
       max_attempt_count |-> c[i].max_attempt_count,
       log |-> c[i].log,
       is_logger |-> is_logger(c, i) ]]

----------------------------------------------------------------------------
(* Time and retry arithmetic *)

\* timespec::millis_since, at millisecond granularity
millis_since(later, earlier) == later - earlier

\* i32::saturating_pow for a non-negative base
RECURSIVE saturating_pow(_, _)
saturating_pow(base, exp) ==
  IF exp = 0 THEN 1
  ELSE IF base = 0 THEN 0
  ELSE IF base = 1 THEN 1
  ELSE LET r == saturating_pow(base, exp - 1)
       IN  IF r > I32_MAX \div base THEN I32_MAX ELSE r * base

\* u32::saturating_sub
saturating_sub(a, b) == IF a > b THEN a - b ELSE 0

\* Service::retry_delay_millis.  The i64 product of two i32 values cannot
\* saturate.
\* a variant whose exponent is attempt_count instead of attempt_count - 1
retry_delay_millis_NoSub(period, multiplier, attempt_count) ==
  period * saturating_pow(multiplier, attempt_count)

retry_delay_millis(period, multiplier, attempt_count) ==
  period * saturating_pow(multiplier, saturating_sub(attempt_count, 1))

----------------------------------------------------------------------------
(* The transition function (NextState::new) *)

has_pid(svc) == svc.pid # NoPid \/ svc.supervisor_pid # NoPid

\* a variant in which a dependency that is still Starting counts as satisfied
needs_satisfied_Starting(cf, svcs) ==
  \A d \in cf.needs : svcs[d].state \in {"Up", "Starting"}

needs_satisfied(cf, svcs) == \A d \in cf.needs : svcs[d].state = "Up"

wants_satisfied(cf, svcs) ==
  \A d \in cf.wants : svcs[d].state \in {"Up", "Failed", "CannotStop"}

\* a variant that lets a service start beside a conflicting one
conflicts_satisfied_Ignored(cf, svcs) ==
  \A d \in cf.conflicts : svcs[d].state \in States

conflicts_satisfied(cf, svcs) ==
  \A d \in cf.conflicts : svcs[d].state \in {"Down", "Failed"}

start_dep_satisfied(cf, svcs) ==
  needs_satisfied(cf, svcs) /\ wants_satisfied(cf, svcs) /\ conflicts_satisfied(cf, svcs)

\* a variant in which only a dependent that is Up blocks the stop
stop_deps_satisfied_OnlyUp(cf, svcs) ==
  \A d \in cf.stop_dependencies : svcs[d].state # "Up"

stop_deps_satisfied(cf, svcs) ==
  \A d \in cf.stop_dependencies :
     svcs[d].state \in {"Down", "WaitingToStart", "Failed", "CannotStop"}

time_elapsed(max, svc, now) == max # NoLimit /\ millis_since(now, svc.time) >= max

setup_time_elapsed(svc, cf, now) == time_elapsed(cf.max_setup_time_millis, svc, now)

start_time_elapsed(svc, cf, now) == time_elapsed(cf.max_ready_time_millis, svc, now)

\* a variant without the window a service must stay Up for
up_time_elapsed_Always(svc, now) == TRUE

up_time_elapsed(svc, now) == millis_since(now, svc.time) >= UP_TIME_MILLIS

stop_time_elapsed(svc, cf, now) == time_elapsed(cf.max_stop_time_millis, svc, now)

clean_up_time_elapsed(svc, cf, now) == time_elapsed(cf.max_cleanup_time_millis, svc, now)

forced_down_time_elapsed(svc, now) == millis_since(now, svc.time) > FORCED_DOWN_TIME_MILLIS

\* a variant that does not look for an unexpected process
from_down_Trusting(svc) ==
  CASE svc.target = "Down" -> "None"
    [] svc.target = "Restart" -> "Down"
    [] OTHER -> "WaitingToStart"

retry_period_elapsed(svc, cf, now) ==
  millis_since(now, svc.time) >=
    retry_delay_millis(cf.retry_wait_period_millis, cf.retry_wait_multiplier,
                       svc.attempt_count)

from_down(svc) ==
  IF has_pid(svc) THEN "ForceDown"
  ELSE IF svc.target = "Down" THEN "None"
  ELSE IF svc.target = "Restart" THEN "Down"
  ELSE "WaitingToStart"

from_waiting_to_start(svc, cf, svcs) ==
  IF has_pid(svc) THEN "ForceDown"
  ELSE IF svc.target \in {"Down", "Restart"} THEN "Down"
  ELSE IF start_dep_satisfied(cf, svcs) THEN "SettingUp"
  ELSE "None"

from_setting_up(svc, cf, now) ==
  IF cf.setup = "None"
  THEN IF has_pid(svc) THEN "ForceDown" ELSE "Starting"
  ELSE IF svc.pid = NoPid /\ svc.exit_code = 0 THEN "Starting"
  ELSE IF svc.pid = NoPid THEN "FailedOrRetry"
  ELSE IF svc.pid # NoPid /\ setup_time_elapsed(svc, cf, now) THEN "ForceDown"
  ELSE "None"

from_starting(svc, cf, now) ==
  IF cf.run = "None"
  THEN IF has_pid(svc) THEN "ForceDown" ELSE "Up"
  ELSE IF ~has_pid(svc) THEN "FailedOrRetry"
  ELSE IF cf.ready = "Immediately" THEN "Up"
  ELSE IF svc.ready THEN "Up"
  ELSE IF start_time_elapsed(svc, cf, now) THEN "ForceDown"
  ELSE "None"

from_up(svc, cf, now) ==
  IF svc.target \in {"Down", "Restart"} THEN "WaitingToStop"
  ELSE IF cf.run = "None"
  THEN IF has_pid(svc) THEN "ForceDown" ELSE "None"
  ELSE IF ~has_pid(svc) THEN "FailedOrRetry"
  ELSE IF svc.attempt_count > 0 /\ up_time_elapsed(svc, now) THEN "UpStable"
  ELSE "None"

from_waiting_to_stop(svc, cf, svcs) ==
  IF svc.target \in {"Up", "Once"} THEN "Up"
  ELSE IF stop_deps_satisfied(cf, svcs) THEN "Stopping"
  ELSE "None"

from_stopping(svc, cf, now) ==
  IF ~has_pid(svc) THEN "CleaningUp"
  ELSE IF stop_time_elapsed(svc, cf, now) THEN "ForceDown"
  ELSE "None"

from_cleaning_up(svc, cf, now) ==
  IF ~has_pid(svc) THEN "Down"
  ELSE IF clean_up_time_elapsed(svc, cf, now) THEN "ForceDown"
  ELSE "None"

from_forced_down(svc, now) ==
  IF ~has_pid(svc)
  THEN IF svc.target \in {"Up", "Once"} THEN "FailedOrRetry" ELSE "Down"
  ELSE IF forced_down_time_elapsed(svc, now) THEN "CannotStop"
  ELSE "None"

from_retrying(svc, cf, now) ==
  IF has_pid(svc) THEN "ForceDown"
  ELSE IF svc.target \in {"Down", "Restart"} THEN "Down"
  ELSE IF retry_period_elapsed(svc, cf, now) THEN "WaitingToStart"
  ELSE "None"

from_failed(svc) == IF has_pid(svc) THEN "ForceDown" ELSE "None"

from_cannot_stop(svc) == IF ~has_pid(svc) THEN "FailedOrRetry" ELSE "None"

NextState_new(c, svcs, i, now) ==
  LET svc == svcs[i]
      cf  == c[i]
  IN  CASE svc.state = "Down"           -> from_down(svc)
        [] svc.state = "WaitingToStart" -> from_waiting_to_start(svc, cf, svcs)
        [] svc.state = "SettingUp"      -> from_setting_up(svc, cf, now)
        [] svc.state = "Starting"       -> from_starting(svc, cf, now)
        [] svc.state = "Up"             -> from_up(svc, cf, now)
        [] svc.state = "WaitingToStop"  -> from_waiting_to_stop(svc, cf, svcs)
        [] svc.state = "Stopping"       -> from_stopping(svc, cf, now)
        [] svc.state = "CleaningUp"     -> from_cleaning_up(svc, cf, now)
        [] svc.state = "ForceDown"      -> from_forced_down(svc, now)
        [] svc.state = "Retrying"       -> from_retrying(svc, cf, now)
        [] svc.state = "Failed"         -> from_failed(svc)
        [] svc.state = "CannotStop"     -> from_cannot_stop(svc)

----------------------------------------------------------------------------
(* Processes.  A process is a direct child of the server, an intermediate  *)
(* supervisor (a child of the server) or the payload a supervisor forked.  *)
(* A dead process stays in the table, as a zombie, until its parent reaps  *)
(* it.  A payload may fork descendants of its own; pgid is the process      *)
(* group of a payload and of its descendants.                              *)

FreeProc ==
  [ kind |-> "free", svc |-> 0, phase |-> "none", alive |-> FALSE,
    code |-> NoCode, sigs |-> {}, parent |-> NoPid, main |-> NoPid,
    stage |-> "none", pgid |-> NoPid ]

\* fork(): the new pid, or NoPid when the fork fails
fork(procs, forkOk) ==
  LET free == {p \in Pids : procs[p].kind = "free"}
  IN  IF forkOk /\ free # {}
      THEN CHOOSE p \in free : \A q \in free : p <= q
      ELSE NoPid

\* a variant that delivers nothing
kill_Never(procs, pid, sig) == procs

\* kill(pid, sig): delivered to whichever live process has that pid
kill(procs, pid, sig) ==
  IF pid \in Pids /\ procs[pid].kind # "free" /\ procs[pid].alive
  THEN [procs EXCEPT ![pid].sigs = @ \cup {sig}]
  ELSE procs

\* the kernel gives the children of the dead process pid to the subreaper
\* above it, which is the parent of pid
reparent(procs, pid) ==
  [p \in DOMAIN procs |->
     IF procs[p].kind # "free" /\ procs[p].parent = pid
     THEN [procs[p] EXCEPT !.parent = procs[pid].parent]
     ELSE procs[p]]

\* read_first_child_pid of the process sup, as a set
read_first_child_pid(procs, sup) ==
  LET kids == {p \in DOMAIN procs : procs[p].kind # "free" /\ procs[p].parent = sup}
  IN  IF kids = {} THEN {} ELSE {CHOOSE p \in kids : \A k \in kids : p <= k}

\* one pass of the loop of kill_all_children over the first child pid:
\* kill(-pid, SIGKILL) ends the processes of the process group pid, and the
\* waitpid loop reaps the children of sup that are dead
kill_group(procs, sup, pid) ==
  [p \in DOMAIN procs |->
     IF procs[p].kind = "free" THEN procs[p]
     ELSE IF procs[p].parent = sup /\ (procs[p].pgid = pid \/ ~procs[p].alive)
     THEN FreeProc
     ELSE IF procs[p].pgid = pid
     THEN [procs[p] EXCEPT !.alive = FALSE, !.code = 128 + SIGKILL]
     ELSE procs[p]]

\* a variant that sends the signal to the process pid itself
kill_group_Process(procs, sup, pid) ==
  [p \in DOMAIN procs |->
     IF procs[p].kind # "free" /\ procs[p].parent = sup /\ (p = pid \/ ~procs[p].alive)
     THEN FreeProc
     ELSE procs[p]]

\* kill_all_children in the process sup: the process table when the loop
\* ends, or stuck when a pass changes nothing and the loop goes on for ever
RECURSIVE kill_all_children(_, _)
kill_all_children(procs, sup) ==
  LET first == read_first_child_pid(procs, sup)
      pid == CHOOSE p \in first : TRUE
      after == kill_group(procs, sup, pid)
  IN  IF first = {} THEN [procs |-> procs, stuck |-> FALSE]
      ELSE IF after = procs THEN [procs |-> procs, stuck |-> TRUE]
      ELSE kill_all_children(after, sup)

\* the process table after the supervisor sup has reaped its payload main
\* and is about to exit(code): with stop_all_children it first runs
\* kill_all_children, and stays in it when that loop does not end
supervisor_exit(procs, sup, main, code, stop_all_children) ==
  LET reaped == [reparent(procs, main) EXCEPT ![main] = FreeProc]
      k == IF stop_all_children THEN kill_all_children(reaped, sup)
           ELSE [procs |-> reaped, stuck |-> FALSE]
  IN  IF k.stuck
      THEN [k.procs EXCEPT ![sup].stage = "kill_all_children", ![sup].main = NoPid]
      ELSE [k.procs EXCEPT ![sup].alive = FALSE, ![sup].code = code]

\* spawn_direct: the result is the service record and the process table, or
\* ok = FALSE when fork failed
spawn_direct(svc, i, phase, procs, forkOk) ==
  LET pid == fork(procs, forkOk)
  IN  IF pid = NoPid
      THEN [ok |-> FALSE, svc |-> svc, procs |-> procs]
      ELSE [ok |-> TRUE,
            svc |-> [svc EXCEPT !.pid = pid],
            procs |-> [procs EXCEPT ![pid] =
                         [FreeProc EXCEPT !.kind = "direct", !.svc = i,
                                          !.phase = phase, !.alive = TRUE,
                                          !.pgid = pid]]]

\* spawn_supervised: the supervisor forks the payload later, on its own
spawn_supervised(svc, i, phase, procs, forkOk) ==
  LET pid == fork(procs, forkOk)
  IN  IF pid = NoPid
      THEN [ok |-> FALSE, svc |-> svc, procs |-> procs]
      ELSE [ok |-> TRUE,
            svc |-> [svc EXCEPT !.supervisor_pid = pid],
            procs |-> [procs EXCEPT ![pid] =
                         [FreeProc EXCEPT !.kind = "supervisor", !.svc = i,
                                          !.phase = phase, !.alive = TRUE,
                                          !.stage = "forking"]]]

spawn_setting_up(svc, cf, procs, forkOk) ==
  IF cf.setup = "None" THEN [ok |-> TRUE, svc |-> svc, procs |-> procs]
  ELSE IF cf.stop_all_children
  THEN spawn_supervised(svc, cf.index, "setup", procs, forkOk)
  ELSE spawn_direct(svc, cf.index, "setup", procs, forkOk)

spawn_run(svc, cf, procs, forkOk) ==
  IF cf.run = "None" THEN [ok |-> TRUE, svc |-> svc, procs |-> procs]
  ELSE IF cf.stop_all_children \/ cf.ready = "Daemonize"
  THEN spawn_supervised(svc, cf.index, "run", procs, forkOk)
  ELSE spawn_direct(svc, cf.index, "run", procs, forkOk)

spawn_cleaning_up(svc, cf, procs, forkOk) ==
  IF cf.cleanup = "None" THEN [ok |-> TRUE, svc |-> svc, procs |-> procs]
  ELSE IF cf.stop_all_children
  THEN spawn_supervised(svc, cf.index, "cleanup", procs, forkOk)
  ELSE spawn_direct(svc, cf.index, "cleanup", procs, forkOk)

----------------------------------------------------------------------------
(* Applying a transition (NextState::apply) *)

collapse_target(t) ==
  CASE t = "Restart" -> "Up"
    [] t = "Once"    -> "Down"
    [] OTHER         -> t

\* a variant that keeps the attempt counter
apply_down_KeepCount(svc) ==
  [svc EXCEPT !.target = collapse_target(@), !.state = "Down"]

apply_down(svc) ==
  [svc EXCEPT !.target = collapse_target(@), !.state = "Down", !.attempt_count = 0]

\* a variant that allows one attempt more than max_attempt_count
apply_failed_or_retry_Inclusive(svc, cf) ==
  LET n == svc.attempt_count + 1
  IN  IF cf.max_attempt_count = NoLimit \/ n <= cf.max_attempt_count
      THEN [svc EXCEPT !.attempt_count = n, !.state = "Retrying"]
      ELSE [svc EXCEPT !.attempt_count = n, !.state = "Failed",
                       !.target = collapse_target(@)]

apply_failed_or_retry(svc, cf) ==
  LET n == svc.attempt_count + 1
  IN  IF cf.max_attempt_count = NoLimit \/ n < cf.max_attempt_count
      THEN [svc EXCEPT !.attempt_count = n, !.state = "Retrying"]
      ELSE [svc EXCEPT !.attempt_count = n, !.state = "Failed",
                       !.target = collapse_target(@)]

\* the service record and process table after the state-specific part
apply_state(self, svc, cf, procs, forkOk) ==
  CASE self = "Down" -> [svc |-> apply_down(svc), procs |-> procs]
    [] self = "WaitingToStart" ->
         [svc |-> [svc EXCEPT !.state = "WaitingToStart"], procs |-> procs]
    [] self = "SettingUp" ->
         LET r == spawn_setting_up(svc, cf, procs, forkOk)
         IN  IF r.ok
             THEN [svc |-> [r.svc EXCEPT !.state = "SettingUp"], procs |-> r.procs]
             ELSE [svc |-> apply_failed_or_retry(svc, cf), procs |-> procs]
    [] self = "Starting" ->
         LET r == spawn_run(svc, cf, procs, forkOk)
         IN  IF r.ok
             THEN [svc |-> [r.svc EXCEPT !.state = "Starting"], procs |-> r.procs]
             ELSE [svc |-> apply_failed_or_retry(svc, cf), procs |-> procs]
    [] self = "Up" -> [svc |-> [svc EXCEPT !.state = "Up"], procs |-> procs]
    [] self = "WaitingToStop" ->
         [svc |-> [svc EXCEPT !.state = "WaitingToStop"], procs |-> procs]
    [] self = "Stopping" ->
         [svc |-> [svc EXCEPT !.state = "Stopping"],
          procs |-> IF svc.pid # NoPid THEN kill(procs, svc.pid, SIGTERM) ELSE procs]
    [] self = "CleaningUp" ->
         LET r == spawn_cleaning_up(svc, cf, procs, forkOk)
         IN  IF r.ok
             THEN [svc |-> [r.svc EXCEPT !.state = "CleaningUp"], procs |-> r.procs]
             ELSE [svc |-> apply_failed_or_retry(svc, cf), procs |-> procs]
    [] self = "FailedOrRetry" ->
         [svc |-> apply_failed_or_retry(svc, cf), procs |-> procs]
    [] self = "ForceDown" ->
         LET p1 == IF svc.supervisor_pid # NoPid
                   THEN kill(procs, svc.supervisor_pid, SIGTERM) ELSE procs
             p2 == IF svc.pid # NoPid THEN kill(p1, svc.pid, SIGKILL) ELSE p1
         IN  [svc |-> [svc EXCEPT !.state = "ForceDown"], procs |-> p2]
    [] self = "CannotStop" ->
         [svc |-> [svc EXCEPT !.state = "CannotStop"], procs |-> procs]
    [] self = "None" -> [svc |-> [svc EXCEPT !.dirty = FALSE], procs |-> procs]
    [] self = "UpStable" ->
         [svc |-> [svc EXCEPT !.dirty = FALSE, !.attempt_count = 0], procs |-> procs]

\* NextState::apply: the service table and the process table afterwards
NextState_apply(self, c, svcs, i, now, procs, forkOk) ==
  LET r == apply_state(self, svcs[i], c[i], procs, forkOk)
  IN  IF self \in {"None", "UpStable"}
      THEN [svcs |-> [svcs EXCEPT ![i] = r.svc], procs |-> r.procs]
      ELSE [svcs |->
              [k \in DOMAIN svcs |->
                 IF k = i
                 THEN [r.svc EXCEPT !.time = now, !.ready = FALSE, !.dirty = TRUE]
                 ELSE IF k \in c[i].propagate_dirty
                 THEN [svcs[k] EXCEPT !.dirty = TRUE]
                 ELSE svcs[k]],
            procs |-> r.procs]

----------------------------------------------------------------------------
(* Target propagation (handle_request.rs, set_target) *)

\* one `for &i in list` loop that writes the target and the dirty mark of
\* every listed service
\* a variant that writes the target and leaves the dirty mark alone
propagate_set_Clean(svcs, list, target) ==
  [k \in DOMAIN svcs |->
     IF k \in list THEN [svcs[k] EXCEPT !.target = target] ELSE svcs[k]]

propagate_set(svcs, list, target) ==
  [k \in DOMAIN svcs |->
     IF k \in list THEN [svcs[k] EXCEPT !.target = target, !.dirty = TRUE]
     ELSE svcs[k]]

\* a variant in which a dependent that was Up does not come back
restart_dependent_Down(t) ==
  CASE t = "Up"   -> "Down"
    [] t = "Once" -> "Down"
    [] OTHER      -> t

\* Restart, the dependents: Up becomes Restart, Once becomes Down
restart_dependent(t) ==
  CASE t = "Up"   -> "Restart"
    [] t = "Once" -> "Down"
    [] OTHER      -> t

propagate_restart_dependents(svcs, list) ==
  [k \in DOMAIN svcs |->
     IF k \in list /\ svcs[k].target \in {"Up", "Once"}
     THEN [svcs[k] EXCEPT !.target = restart_dependent(@), !.dirty = TRUE]
     ELSE svcs[k]]

\* a variant that leaves the dependencies alone
propagate_restart_dependencies_Skip(svcs, list) == svcs

\* Restart, the dependencies: Down becomes Up
propagate_restart_dependencies(svcs, list) ==
  [k \in DOMAIN svcs |->
     IF k \in list /\ svcs[k].target = "Down"
     THEN [svcs[k] EXCEPT !.target = "Up", !.dirty = TRUE]
     ELSE svcs[k]]

\* a variant without the last loop, over the group members
set_target_NoGroups(c, svcs, index, now, target, procs) ==
  LET cf == c[index]
      s0 == IF svcs[index].state = "Failed"
            THEN NextState_apply("Down", c, svcs, index, now, procs, TRUE).svcs
            ELSE svcs
      s1 == [s0 EXCEPT ![index].target = target, ![index].dirty = TRUE]
  IN  CASE target \in {"Up", "Once"} ->
             propagate_set(
               propagate_set(s1, cf.target_up_propagate_up, "Up"),
               cf.target_up_propagate_down, "Down")
        [] target = "Down" ->
             propagate_set(s1, cf.target_down_propagate_down, "Down")
        [] target = "Restart" ->
             propagate_set(
               propagate_restart_dependencies(
                 propagate_restart_dependents(s1, cf.target_down_propagate_down),
                 cf.target_up_propagate_up),
               cf.target_up_propagate_down, "Down")

\* a variant whose Down does not reach the dependents
set_target_Alone(c, svcs, index, now, target, procs) ==
  LET cf == c[index]
      s0 == IF svcs[index].state = "Failed"
            THEN NextState_apply("Down", c, svcs, index, now, procs, TRUE).svcs
            ELSE svcs
      s1 == [s0 EXCEPT ![index].target = target, ![index].dirty = TRUE]
      s2 == CASE target \in {"Up", "Once"} ->
                   propagate_set(
                     propagate_set(s1, cf.target_up_propagate_up, "Up"),
                     cf.target_up_propagate_down, "Down")
              [] target = "Down" -> s1
              [] target = "Restart" ->
                   propagate_set(
                     propagate_restart_dependencies(
                       propagate_restart_dependents(s1, cf.target_down_propagate_down),
                       cf.target_up_propagate_up),
                     cf.target_up_propagate_down, "Down")
  IN  propagate_set(s2, cf.groups, target)

set_target(c, svcs, index, now, target, procs) ==
  LET cf == c[index]
      s0 == IF svcs[index].state = "Failed"
            THEN NextState_apply("Down", c, svcs, index, now, procs, TRUE).svcs
            ELSE svcs
      s1 == [s0 EXCEPT ![index].target = target, ![index].dirty = TRUE]
      s2 == CASE target \in {"Up", "Once"} ->
                   propagate_set(
                     propagate_set(s1, cf.target_up_propagate_up, "Up"),
                     cf.target_up_propagate_down, "Down")
              [] target = "Down" ->
                   propagate_set(s1, cf.target_down_propagate_down, "Down")
              [] target = "Restart" ->
                   propagate_set(
                     propagate_restart_dependencies(
                       propagate_restart_dependents(s1, cf.target_down_propagate_down),
                       cf.target_up_propagate_up),
                     cf.target_up_propagate_down, "Down")
  IN  propagate_set(s2, cf.groups, target)

----------------------------------------------------------------------------
(* The poll timeout (poll.rs).  An Option is a set of at most one value.   *)

service_timeout(svc, cf, now) ==
  LET target_ms ==
        CASE svc.state = "SettingUp" ->
               IF cf.max_setup_time_millis = NoLimit THEN {} ELSE {cf.max_setup_time_millis}
          [] svc.state = "Starting" ->
               IF cf.max_ready_time_millis = NoLimit THEN {} ELSE {cf.max_ready_time_millis}
          [] svc.state = "Up" /\ svc.attempt_count # 0 -> {UP_TIME_MILLIS}
          [] svc.state = "Stopping" ->
               IF cf.max_stop_time_millis = NoLimit THEN {} ELSE {cf.max_stop_time_millis}
          [] svc.state = "CleaningUp" ->
               IF cf.max_cleanup_time_millis = NoLimit THEN {} ELSE {cf.max_cleanup_time_millis}
          [] svc.state = "Retrying" /\ svc.target \in {"Down", "Restart"} -> {}
          [] svc.state = "Retrying" ->
               {retry_delay_millis(cf.retry_wait_period_millis,
                                   cf.retry_wait_multiplier, svc.attempt_count)}
          [] OTHER -> {}
  IN  {t - millis_since(now, svc.time) : t \in target_ms}

clamp(v, lo, hi) == IF v < lo THEN lo ELSE IF v > hi THEN hi ELSE v

\* remaining time of service i, clamped, as calculate_poll_timeout sees it
remaining_millis(c, svcs, i, now) ==
  {clamp(r, 0, I32_MAX) : r \in service_timeout(svcs[i], c[i], now)}

\* (min_time, min_svc): the first service with the least remaining time
calculate_poll_timeout(c, svcs, now) ==
  LET timed == {i \in DOMAIN svcs : remaining_millis(c, svcs, i, now) # {}}
      rem(i) == CHOOSE r \in remaining_millis(c, svcs, i, now) : TRUE
  IN  IF timed = {}
      THEN [timeout |-> {}, svc |-> 0]
      ELSE LET m == CHOOSE i \in timed :
                      \A k \in timed : rem(i) < rem(k) \/ (rem(i) = rem(k) /\ i <= k)
           IN  [timeout |-> {rem(m)}, svc |-> m]

----------------------------------------------------------------------------
(* Service table queries (internal_api.rs, ServiceArray) *)

all_down_or_err(svcs) ==
  \A i \in DOMAIN svcs : svcs[i].state \in {"Down", "Failed", "CannotStop"}

\* a variant that overlooks Failed
any_bad_OnlyCannotStop(svcs) == \E i \in DOMAIN svcs : svcs[i].state = "CannotStop"

any_bad(svcs) == \E i \in DOMAIN svcs : svcs[i].state \in {"Failed", "CannotStop"}

\* Option<usize> as a set
find_dirty_index(svcs) ==
  LET d == {i \in DOMAIN svcs : svcs[i].dirty}
  IN  IF d = {} THEN {} ELSE {CHOOSE i \in d : \A k \in d : i <= k}

first_of(set) == IF set = {} THEN {} ELSE {CHOOSE i \in set : \A k \in set : i <= k}

find_by_pid_mut(svcs, pid) == first_of({i \in DOMAIN svcs : svcs[i].pid = pid})

find_by_supervisor_pid_mut(svcs, pid) ==
  first_of({i \in DOMAIN svcs : svcs[i].supervisor_pid = pid})

find_by_direct_or_supervisor_pid_mut(svcs, pid) ==
  first_of({i \in DOMAIN svcs : svcs[i].pid = pid \/ svcs[i].supervisor_pid = pid})

----------------------------------------------------------------------------
(* Session store (session.rs) *)

\* Option::None of a pipe; Some((read_fd, write_fd)) is the pair of raw fds
NoPipe == <<>>

\* the header byte of a field
SessionField(f) ==
  CASE f = "ServiceStart" -> 91
    [] f = "ServiceEnd" -> 93
    [] f = "StateDown" -> 100
    [] f = "StateWaitingToStart" -> 119
    [] f = "StateSettingUp" -> 115
    [] f = "StateStarting" -> 83
    [] f = "StateUp" -> 117
    [] f = "StateWaitingToStop" -> 87
    [] f = "StateStopping" -> 103
    [] f = "StateCleaningUp" -> 99
    [] f = "StateRetrying" -> 114
    [] f = "StateFailed" -> 102
    [] f = "StateForceDown" -> 70
    [] f = "StateCannotStop" -> 67
    [] f = "TargetDown" -> 68
    [] f = "TargetUp" -> 85
    [] f = "TargetRestart" -> 82
    [] f = "TargetOnce" -> 79
    [] f = "Pid" -> 112
    [] f = "SupervisorPid" -> 80
    [] f = "StdinPipe" -> 105
    [] f = "ReturnValue" -> 118
    [] f = "SettlePipe" -> 113
    [] f = "AttemptCount" -> 97
    [] f = "TimeSec" -> 116
    [] f = "TimeNsec" -> 110
    [] f = "Ready" -> 121

\* the low n bytes of the two's complement of v, least significant first; v
\* fits 32 bits, so the bytes from the fifth on are its sign extension
to_le_bytes(v, n) ==
  [k \in 1..n |->
     CASE k = 1 -> v % 256
       [] k = 2 -> (v \div 256) % 256
       [] k = 3 -> (v \div 65536) % 256
       [] k = 4 -> (v \div 16777216) % 256
       [] OTHER -> IF v < 0 THEN 255 ELSE 0]

\* u16::from_le_bytes
u16_from_le_bytes(b) == b[1] + 256 * b[2]

\* i32::from_le_bytes
i32_from_le_bytes(b) ==
  b[1] + 256 * b[2] + 65536 * b[3]
    + 16777216 * (IF b[4] >= 128 THEN b[4] - 256 ELSE b[4])

\* u32::from_le_bytes, for the values below 2^31
u32_from_le_bytes(b) == b[1] + 256 * b[2] + 65536 * b[3] + 16777216 * b[4]

\* i64::from_le_bytes, for the values that fit 32 bits
i64_from_le_bytes(b) == i32_from_le_bytes(SubSeq(b, 1, 4))

\* timespec of a time in milliseconds, and back
tv_sec(t) == t \div 1000
tv_nsec(t) == (t % 1000) * 1000000
\* a variant that loses the seconds
timespec_NoSec(sec, nsec) == nsec \div 1000000

timespec(sec, nsec) == sec * 1000 + nsec \div 1000000

\* a variant that emits the time only when the seconds are not zero
save_time_SecOnly(t) ==
  IF tv_sec(t) # 0
  THEN <<SessionField("TimeSec")>> \o to_le_bytes(tv_sec(t), 8)
         \o <<SessionField("TimeNsec")>> \o to_le_bytes(tv_nsec(t), 8)
  ELSE <<>>

\* the TimeSec and TimeNsec fields of save: each only if non-zero
save_time(t) ==
  (IF tv_sec(t) # 0
   THEN <<SessionField("TimeSec")>> \o to_le_bytes(tv_sec(t), 8) ELSE <<>>)
  \o (IF tv_nsec(t) # 0
      THEN <<SessionField("TimeNsec")>> \o to_le_bytes(tv_nsec(t), 8) ELSE <<>>)

state_header(state) ==
  CASE state = "Down" -> SessionField("StateDown")
    [] state = "WaitingToStart" -> SessionField("StateWaitingToStart")
    [] state = "SettingUp" -> SessionField("StateSettingUp")
    [] state = "Starting" -> SessionField("StateStarting")
    [] state = "Up" -> SessionField("StateUp")
    [] state = "WaitingToStop" -> SessionField("StateWaitingToStop")
    [] state = "Stopping" -> SessionField("StateStopping")
    [] state = "CleaningUp" -> SessionField("StateCleaningUp")
    [] state = "Retrying" -> SessionField("StateRetrying")
    [] state = "Failed" -> SessionField("StateFailed")
    [] state = "ForceDown" -> SessionField("StateForceDown")
    [] state = "CannotStop" -> SessionField("StateCannotStop")

target_header(target) ==
  CASE target = "Down" -> SessionField("TargetDown")
    [] target = "Up" -> SessionField("TargetUp")
    [] target = "Restart" -> SessionField("TargetRestart")
    [] target = "Once" -> SessionField("TargetOnce")

\* the bytes SessionFd::save writes for one service
save_service(svc, cf) ==
  <<SessionField("ServiceStart")>> \o to_le_bytes(Len(cf.name), 2) \o cf.name
  \o <<state_header(svc.state)>>
  \o <<target_header(svc.target)>>
  \o (IF svc.pid # NoPid
      THEN <<SessionField("Pid")>> \o to_le_bytes(svc.pid, 4) ELSE <<>>)
  \o (IF svc.supervisor_pid # NoPid
      THEN <<SessionField("SupervisorPid")>> \o to_le_bytes(svc.supervisor_pid, 4)
      ELSE <<>>)
  \o (IF svc.stdin_pipe # NoPipe
      THEN <<SessionField("StdinPipe")>> \o to_le_bytes(svc.stdin_pipe[1], 4)
             \o to_le_bytes(svc.stdin_pipe[2], 4)
      ELSE <<>>)
  \o (IF svc.exit_code # NoCode
      THEN <<SessionField("ReturnValue")>> \o to_le_bytes(svc.exit_code, 4)
      ELSE <<>>)
  \o (IF svc.settle_pipe # NoPipe
      THEN <<SessionField("SettlePipe")>> \o to_le_bytes(svc.settle_pipe[1], 4)
             \o to_le_bytes(svc.settle_pipe[2], 4)
      ELSE <<>>)
  \o (IF svc.attempt_count # 0
      THEN <<SessionField("AttemptCount")>> \o to_le_bytes(svc.attempt_count, 4)
      ELSE <<>>)
  \o save_time(svc.time)
  \o (IF svc.ready THEN <<SessionField("Ready")>> ELSE <<>>)
  \o <<SessionField("ServiceEnd")>>

\* SessionFd::save: the memfd is truncated and the services written in order
RECURSIVE save_from(_, _, _)
save_from(s, c, i) ==
  IF i > Len(s) THEN <<>>
  ELSE save_service(s[i], c[i]) \o save_from(s, c, i + 1)

save(s, c) == save_from(s, c, 1)

\* svcs.find_by_name_mut(name), as a set
find_by_name_mut(c, name) == first_of({i \in DOMAIN c : c[i].name = name})

\* the reader before its first byte: svc is the matching service (a set),
\* f the fields with the defaults deserialize sets at its start and at every
\* ServiceStart, kills the pids sent SIGTERM, closed the fds closed, err an
\* Err(EINVAL)
Reader(s) ==
  [ pos |-> 1, svc |-> {},
    f |-> [ state |-> "Down", target |-> "Down", pid |-> NoPid,
            supervisor_pid |-> NoPid, stdin_pipe |-> NoPipe,
            exit_code |-> NoCode, attempt_count |-> 0, time_sec |-> 0,
            time_nsec |-> 0, ready |-> FALSE, settle_pipe |-> NoPipe ],
    svcs |-> s, kills |-> {}, closed |-> {}, err |-> FALSE ]

pipe_fds(pipe) == {pipe[k] : k \in DOMAIN pipe}

\* ServiceEnd: the fields are committed to the matching record, or the
\* processes of an unrecognized service are sent SIGTERM and its fds closed
service_end(r, c) ==
  IF r.svc # {}
  THEN LET i == CHOOSE k \in r.svc : TRUE
       IN  [r EXCEPT
              !.svcs[i] = [@ EXCEPT
                 !.state = r.f.state, !.target = r.f.target, !.pid = r.f.pid,
                 !.supervisor_pid = r.f.supervisor_pid,
                 !.stdin_pipe = IF c[i].is_logger THEN r.f.stdin_pipe ELSE @,
                 !.exit_code = r.f.exit_code,
                 !.attempt_count = r.f.attempt_count,
                 !.time = timespec(r.f.time_sec, r.f.time_nsec),
                 !.ready = r.f.ready,
                 !.settle_pipe = r.f.settle_pipe],
              !.closed = IF c[i].is_logger THEN @
                         ELSE @ \cup pipe_fds(r.f.stdin_pipe),
              !.f.stdin_pipe = NoPipe, !.f.settle_pipe = NoPipe]
  ELSE [r EXCEPT
          !.kills = @ \cup ({r.f.pid, r.f.supervisor_pid} \ {NoPid}),
          !.closed = @ \cup pipe_fds(r.f.stdin_pipe) \cup pipe_fds(r.f.settle_pipe),
          !.f.stdin_pipe = NoPipe, !.f.settle_pipe = NoPipe]

\* one pass of the loop of deserialize over the bytes b of the memfd
RECURSIVE deserialize_from(_, _, _)
deserialize_from(b, r, c) ==
  IF r.err \/ r.pos > Len(b) THEN r
  ELSE
    LET h == b[r.pos]
        F(f) == SessionField(f)
        p == r.pos + 1
        \* read_u16!, read_i32!, read_u32!, read_i64!: n bytes or Err(EINVAL)
        short(n) == p + n - 1 > Len(b)
        bytes(n) == SubSeq(b, p, p + n - 1)
        fail == [r EXCEPT !.err = TRUE]
        \* a header without data
        flag(field, v) == [r EXCEPT !.pos = p, !.f[field] = v]
        \* a header followed by an integer of n bytes
        int(field, n, v) ==
          IF short(n) THEN fail ELSE [r EXCEPT !.pos = p + n, !.f[field] = v]
        next ==
          CASE h = F("ServiceStart") ->
                 IF short(2) THEN fail
                 ELSE LET name_len == u16_from_le_bytes(bytes(2))
                      IN  IF p + 2 + name_len - 1 > Len(b) THEN fail
                          ELSE [r EXCEPT
                                  !.pos = p + 2 + name_len,
                                  !.svc = find_by_name_mut(c,
                                            SubSeq(b, p + 2, p + 2 + name_len - 1)),
                                  !.f = Reader(r.svcs).f]
            [] h = F("ServiceEnd") -> [service_end(r, c) EXCEPT !.pos = p]
            [] h = F("StateDown") -> flag("state", "Down")
            [] h = F("StateWaitingToStart") -> flag("state", "WaitingToStart")
            [] h = F("StateSettingUp") -> flag("state", "SettingUp")
            [] h = F("StateStarting") -> flag("state", "Starting")
            [] h = F("StateUp") -> flag("state", "Up")
            [] h = F("StateWaitingToStop") -> flag("state", "WaitingToStop")
            [] h = F("StateStopping") -> flag("state", "Stopping")
            [] h = F("StateCleaningUp") -> flag("state", "CleaningUp")
            [] h = F("StateRetrying") -> flag("state", "Retrying")
            [] h = F("StateFailed") -> flag("state", "Failed")
            [] h = F("StateForceDown") -> flag("state", "ForceDown")
            [] h = F("StateCannotStop") -> flag("state", "CannotStop")
            [] h = F("TargetDown") -> flag("target", "Down")
            [] h = F("TargetUp") -> flag("target", "Up")
            [] h = F("TargetRestart") -> flag("target", "Restart")
            [] h = F("TargetOnce") -> flag("target", "Once")
            [] h = F("Pid") ->
                 int("pid", 4, LET v == i32_from_le_bytes(bytes(4))
                               IN  IF v <= 0 THEN NoPid ELSE v)
            [] h = F("SupervisorPid") ->
                 int("supervisor_pid", 4, LET v == i32_from_le_bytes(bytes(4))
                                          IN  IF v <= 0 THEN NoPid ELSE v)
            [] h = F("StdinPipe") ->
                 int("stdin_pipe", 8, <<i32_from_le_bytes(SubSeq(b, p, p + 3)),
                                        i32_from_le_bytes(SubSeq(b, p + 4, p + 7))>>)
            [] h = F("ReturnValue") -> int("exit_code", 4, i32_from_le_bytes(bytes(4)))
            [] h = F("SettlePipe") ->
                 int("settle_pipe", 8, <<i32_from_le_bytes(SubSeq(b, p, p + 3)),
                                         i32_from_le_bytes(SubSeq(b, p + 4, p + 7))>>)
            [] h = F("AttemptCount") ->
                 int("attempt_count", 4, u32_from_le_bytes(bytes(4)))
            [] h = F("TimeSec") -> int("time_sec", 8, i64_from_le_bytes(bytes(8)))
            [] h = F("TimeNsec") ->
                 int("time_nsec", 8, LET v == i64_from_le_bytes(bytes(8))
                                     IN  IF v >= 0 /\ v <= 999999999 THEN v ELSE 0)
            [] h = F("Ready") -> flag("ready", TRUE)
            \* SessionField::try_from fails: the byte is skipped
            [] OTHER -> [r EXCEPT !.pos = p]
    IN  deserialize_from(b, next, c)

\* SessionFd::deserialize of the memfd contents b into the table s
deserialize(b, s, c) == deserialize_from(b, Reader(s), c)

----------------------------------------------------------------------------
(* Service tables the model is run on *)

Override(r, o) == [f \in DOMAIN r |-> IF f \in DOMAIN o THEN o[f] ELSE r[f]]

\* the services of a table named "a", "b", "c", ... in their order
Named(t) == [i \in DOMAIN t |-> [t[i] EXCEPT !.name = <<96 + i>>]]

\* a sets up, runs a program and signals readiness; b needs a; c wants b
TableNeeds ==
  Named(<<Override(DEFAULT_SERVICE,
       [setup |-> "Exec", run |-> "Exec", ready |-> "Notify"]),
    Override(DEFAULT_SERVICE, [needs |-> {1}]),
    Override(DEFAULT_SERVICE, [wants |-> {2}])>>)

\* x runs a program, cleans up and has max_attempt_count = Some(0); y
\* conflicts with x; w wants y
TableConflicts ==
  Named(<<Override(DEFAULT_SERVICE,
       [run |-> "Exec", cleanup |-> "Exec", max_attempt_count |-> 0]),
    Override(DEFAULT_SERVICE, [conflicts |-> {1}, init_target |-> "Down"]),
    Override(DEFAULT_SERVICE, [wants |-> {2}, init_target |-> "Down"])>>)

\* r retries after a fixed delay and gives up at the second failure
TableRetry ==
  Named(<<Override(DEFAULT_SERVICE,
       [run |-> "Exec", retry_wait_period_millis |-> Tick,
        max_attempt_count |-> 2]),
    Override(DEFAULT_SERVICE, [wants |-> {1}, init_target |-> "Once"]),
    Override(DEFAULT_SERVICE, [init_target |-> "Down"])>>)

\* u retries for ever with a doubling delay
TableRetryForever ==
  Named(<<Override(DEFAULT_SERVICE,
       [run |-> "Exec", retry_wait_period_millis |-> Tick,
        retry_wait_multiplier |-> 2, max_attempt_count |-> NoLimit]),
    Override(DEFAULT_SERVICE, [init_target |-> "Down"]),
    Override(DEFAULT_SERVICE, [groups |-> {1, 2}, init_target |-> "Down"])>>)

\* e runs under an intermediate supervisor (stop_all_children); f needs e
TableSupervised ==
  Named(<<Override(DEFAULT_SERVICE, [stop_all_children |-> TRUE, run |-> "Exec"]),
    Override(DEFAULT_SERVICE, [needs |-> {1}, init_target |-> "Down"]),
    Override(DEFAULT_SERVICE, [groups |-> {1}, init_target |-> "Down"])>>)

\* s is supervised too and has a setup phase
TableSupervisedSetup ==
  Named(<<Override(DEFAULT_SERVICE,
       [stop_all_children |-> TRUE, setup |-> "Exec", run |-> "Exec"]),
    Override(DEFAULT_SERVICE, [wants |-> {1}, init_target |-> "Down"]),
    Override(DEFAULT_SERVICE, [init_target |-> "Down"])>>)

\* y conflicts with x and both are to be up from the start; x runs a program
TableRivals ==
  Named(<<Override(DEFAULT_SERVICE, [run |-> "Exec"]),
    Override(DEFAULT_SERVICE, [conflicts |-> {1}]),
    Override(DEFAULT_SERVICE, [init_target |-> "Down"])>>)

\* a groups b, b groups c and c needs a: a cycle the validator accepts, since
\* groups is no start or stop dependency
TableGroupLoop ==
  Named(<<Override(DEFAULT_SERVICE, [groups |-> {2}]),
    Override(DEFAULT_SERVICE, [groups |-> {3}, init_target |-> "Once"]),
    Override(DEFAULT_SERVICE, [needs |-> {1}, init_target |-> "Once"])>>)

Tables ==
  { TableNeeds, TableConflicts, TableRetry, TableRetryForever, TableSupervised,
    TableSupervisedSetup, TableGroupLoop, TableRivals }

----------------------------------------------------------------------------
(* State *)

VARIABLES
  cfg,            \* the internal configuration (immutable after load)
  svcs,           \* the service table
  now,            \* the time sampled at the top of the main loop
  pc,             \* where the main loop is: "scan", "poll" or "exited"
  shutting_down,  \* main.rs, shutting_down
  exit_status,    \* the code the server exited with, NoCode while it runs
  procs,          \* the process table of the kernel
  ipc,            \* the request just handled and the response written
  commands,       \* how many operator commands were sent so far
  hist,           \* history of each service since it last entered Down
  is_pid1,        \* getpid() == 1: the server runs as init
  session,        \* the bytes of the session memfd
  fds,            \* the pipe fds open in the server, other than the ipc pipes
  saved,          \* history: the tables at the SIGHUP the image resumed from
  pipes,          \* the request pipe, the response pipe and the lock on it
  peers,          \* the peers: where each one is, what it drained and got
  served,         \* history: the requests read and the responses written
  images,         \* the configurations of the binaries exec may load
  wire            \* a message value and what its serialization wrote

vars ==
  <<cfg, svcs, now, pc, shutting_down, exit_status, procs, ipc, commands, hist,
    is_pid1, session, fds, saved, pipes, peers, served, images, wire>>

Idx == DOMAIN svcs

\* seen is the state the addressed service was in when the request was read
NoIpc == [req |-> "none", svc |-> 0, resp |-> "none", seen |-> "none"]

\* the peers that connect to the server
Peers == 1..MaxPeers

\* both pipes are empty and the request pipe is not locked; settle is the
\* set of settle pipes, named by their read fd, that hold a byte
NoPipes == [req |-> <<>>, resp |-> <<>>, lock |-> 0, settle |-> {}]

\* IpcClient::from_pid has opened the pipes and is about to drain
\* arg is the service a settle command names, settle_fd the settle pipe it
\* polls and status what it exited with
NewPeer ==
  [pc |-> "draining", drained |-> {}, got |-> {}, wrote |-> <<>>,
   arg |-> <<>>, settle_fd |-> NoPid, status |-> NoCode]

\* no message serialized
NoWire == [kind |-> "none", value |-> <<>>, written |-> <<>>, aborted |-> FALSE]

\* the server has read no request and written no response
NoServed == [reads |-> <<>>, writes |-> <<>>]

\* no session was resumed, or the resumed image has finished its first scan
NoSaved == [svcs |-> <<>>, procs |-> <<>>]

\* nothing has happened to a service since it entered Down
NoHist == [starts |-> 0, other |-> FALSE]

\* the history of a service after a transition pass over it computed ns:
\* starts counts its entries into Starting; other records that it failed
\* otherwise than by its run child ending, or that it was Up long enough to
\* have its attempts forgotten
hist_after(h, ns, old, new) ==
  CASE ns = "Down" -> NoHist
    [] ns = "UpStable" -> [h EXCEPT !.other = TRUE]
    [] ns = "Starting" /\ new.state = "Starting" -> [h EXCEPT !.starts = @ + 1]
    [] new.state \in {"Retrying", "Failed"} /\ new.state # old.state
         /\ ~(ns = "FailedOrRetry" /\ old.state \in {"Starting", "Up"}) ->
         [h EXCEPT !.other = TRUE]
    [] OTHER -> h

\* SERVICES.initialize(now)
initialize(c, t) ==
  [i \in DOMAIN c |->
     [ state |-> "Down", target |-> c[i].init_target, pid |-> NoPid,
       supervisor_pid |-> NoPid, stdin_pipe |-> NoPipe, exit_code |-> NoCode,
       attempt_count |-> 0, time |-> t, ready |-> FALSE, dirty |-> TRUE,
       settle_pipe |-> NoPipe ]]

\* the state main() enters its loop in, as PID 1 or not
Started(pid1) ==
  /\ cfg \in {generate_internal_config(t) : t \in {t \in Tables : check_config(t)}}
  /\ svcs = initialize(cfg, 0)
  /\ now = 0
  /\ pc = "scan"
  /\ shutting_down = FALSE
  /\ exit_status = NoCode
  /\ procs = [p \in Pids |-> FreeProc]
  /\ ipc = NoIpc
  /\ commands = 0
  /\ hist = [i \in DOMAIN cfg |-> NoHist]
  /\ is_pid1 = pid1
  /\ session = <<>>
  /\ fds = {}
  /\ saved = NoSaved
  /\ pipes = NoPipes
  /\ peers = [q \in Peers |-> NewPeer]
  /\ served = NoServed
  /\ images = {cfg}
  /\ wire = NoWire

\* the server is started by an init system or a user
Init == Started(FALSE)

\* the server is started by the kernel as init
InitPid1 == Started(TRUE)

----------------------------------------------------------------------------
(* The settle pipes (next_state.rs, settle_notify and settle_clear) *)

\* State::stable and State::bad
stable(state) == state \in {"Down", "Up", "Failed", "CannotStop"}

bad(state) == state \in {"Failed", "CannotStop"}

\* a byte is written to the write end of the settle pipe, if there is one
settle_notify(svc, settle) ==
  IF svc.settle_pipe # NoPipe THEN settle \cup {svc.settle_pipe[1]} ELSE settle

\* the read end of the settle pipe, if there is one, is drained
settle_clear(svc, settle) ==
  IF svc.settle_pipe # NoPipe THEN settle \ {svc.settle_pipe[1]} ELSE settle

\* a variant that notifies on every entry
settle_entry_Always(self, svc, settle) ==
  IF self \in {"None", "UpStable"} THEN settle ELSE settle_notify(svc, settle)

\* the settle pipes after NextState::apply left the record svc: apply_down,
\* apply_up, apply_cannot_stop and the Failed branch of apply_failed_or_retry
\* notify, every other apply_* function clears
settle_entry(self, svc, settle) ==
  CASE self \in {"None", "UpStable"} -> settle
    [] svc.state \in {"Down", "Up", "Failed", "CannotStop"} -> settle_notify(svc, settle)
    [] OTHER -> settle_clear(svc, settle)

\* the settle pipes after set_target, which applies Down to a Failed service
settle_set_target(s, index, settle) ==
  IF s[index].state = "Failed" THEN settle_notify(s[index], settle) ELSE settle

----------------------------------------------------------------------------
(* The main loop (main.rs) *)

\* one pass of `while let Some(i) = svcs.find_dirty_index()`
Transition ==
  /\ pc = "scan"
  /\ \E i \in find_dirty_index(svcs) : \E forkOk \in BOOLEAN :
       LET ns == NextState_new(cfg, svcs, i, now)
           r  == NextState_apply(ns, cfg, svcs, i, now, procs, forkOk)
       IN  /\ svcs' = r.svcs
           /\ procs' = r.procs
           /\ hist' = [hist EXCEPT ![i] = hist_after(@, ns, svcs[i], r.svcs[i])]
           /\ pipes' = [pipes EXCEPT !.settle = settle_entry(ns, r.svcs[i], @)]
  /\ ipc' = NoIpc
  /\ UNCHANGED <<cfg, images, wire, is_pid1, session, fds, saved, peers, served, now, pc, shutting_down, exit_status, commands>>

\* no service is dirty: exit when shut down, otherwise go to poll()
ScanDone ==
  /\ pc = "scan"
  /\ find_dirty_index(svcs) = {}
  /\ IF shutting_down /\ all_down_or_err(svcs)
     THEN /\ pc' = "exited"
          /\ exit_status' = IF any_bad(svcs) THEN 1 ELSE 0
     ELSE /\ pc' = "poll"
          /\ UNCHANGED exit_status
  /\ ipc' = NoIpc
  /\ saved' = NoSaved
  /\ UNCHANGED <<cfg, images, wire, is_pid1, session, fds, pipes, peers, served, svcs, now, shutting_down, procs, commands, hist>>

\* a signal is pending on the signalfd: a child of the server is a zombie
Zombies == {p \in Pids : procs[p].kind \in {"direct", "supervisor"} /\ ~procs[p].alive}

\* how long poll() may block before an event arrives
EventDelays ==
  LET t == calculate_poll_timeout(cfg, svcs, now).timeout
  IN  {d \in {0, Tick} : now + d <= MaxNow /\ \A m \in t : d <= m}

\* poll() returns TimeoutExpired
PollTimeout ==
  /\ pc = "poll"
  /\ Zombies = {}
  /\ LET r == calculate_poll_timeout(cfg, svcs, now)
     IN  /\ r.timeout # {}
         /\ \E t \in r.timeout :
              /\ now + t <= MaxNow
              /\ now' = now + t
         /\ svcs' = [svcs EXCEPT ![r.svc].dirty = TRUE]
  /\ pc' = "scan"
  /\ ipc' = NoIpc
  /\ UNCHANGED <<cfg, images, wire, is_pid1, session, fds, saved, pipes, peers, served, shutting_down, exit_status, procs, commands, hist>>

----------------------------------------------------------------------------
(* Signals (handle_signal.rs) *)

\* the service table after SIGINT or SIGTERM was handled
shutdown_targets(s) == [i \in DOMAIN s |-> [s[i] EXCEPT !.target = "Down", !.dirty = TRUE]]

\* SIGINT or SIGTERM sent to the server: ignored when it is PID 1
HandleShutdownSignal ==
  /\ pc = "poll"
  /\ commands < MaxCommands
  /\ commands' = commands + 1
  /\ \E d \in EventDelays : now' = now + d
  /\ IF is_pid1
     THEN UNCHANGED <<svcs, shutting_down>>
     ELSE /\ svcs' = shutdown_targets(svcs)
          /\ shutting_down' = TRUE
  /\ pc' = "scan"
  /\ ipc' = NoIpc
  /\ UNCHANGED <<cfg, images, wire, is_pid1, session, fds, saved, pipes, peers, served, exit_status, procs, hist>>

\* the record of a service whose direct child was reaped
reap_direct(svc, code) ==
  [svc EXCEPT !.pid = NoPid, !.exit_code = code, !.dirty = TRUE,
              !.stdin_pipe = NoPipe]

\* a variant that treats a reaped supervisor as a direct child
reap_supervisor_AsDirect(svc, code) == reap_direct(svc, code)

\* the record of a service whose supervisor was reaped
reap_supervisor(svc, code) ==
  [svc EXCEPT !.pid = NoPid, !.supervisor_pid = NoPid, !.exit_code = code,
              !.dirty = TRUE, !.stdin_pipe = NoPipe]

\* the waitpid(-1, WNOHANG) loop over the zombies in `left`
RECURSIVE handle_sigchld(_, _, _)
handle_sigchld(s, table, left) ==
  IF left = {} THEN s
  ELSE LET pid  == CHOOSE p \in left : \A q \in left : p <= q
           code == table[pid].code
           d    == find_by_pid_mut(s, pid)
           v    == find_by_supervisor_pid_mut(s, pid)
           s1   == IF d # {}
                   THEN [s EXCEPT ![CHOOSE i \in d : TRUE] = reap_direct(@, code)]
                   ELSE IF v # {}
                   THEN [s EXCEPT ![CHOOSE i \in v : TRUE] = reap_supervisor(@, code)]
                   ELSE s
       IN  handle_sigchld(s1, table, left \ {pid})

\* SIGCHLD: every zombie child is reaped
HandleSigchld ==
  /\ pc = "poll"
  /\ Zombies # {}
  /\ \E d \in EventDelays : now' = now + d
  /\ svcs' = handle_sigchld(svcs, procs, Zombies)
  /\ fds' = fds \ UNION {pipe_fds(svcs[i].stdin_pipe) :
                           i \in {k \in DOMAIN svcs : svcs'[k].stdin_pipe = NoPipe}}
  /\ procs' = [p \in Pids |-> IF p \in Zombies THEN FreeProc ELSE procs[p]]
  /\ pc' = "scan"
  /\ ipc' = NoIpc
  /\ UNCHANGED <<cfg, images, wire, is_pid1, session, saved, pipes, peers, served, shutting_down, exit_status, commands, hist>>

----------------------------------------------------------------------------
(* Requests (handle_request.rs).  A request is read only when no signal is *)
(* pending; its arrival and its handling are one step.                     *)

RequestReady == pc = "poll" /\ Zombies = {}

SetTargetTag(target) ==
  CASE target = "Up"      -> "SetTargetUp"
    [] target = "Down"    -> "SetTargetDown"
    [] target = "Restart" -> "SetTargetRestart"
    [] target = "Once"    -> "SetTargetOnce"

\* Request::SetTarget{Up,Down,Restart,Once}(name) for the service at index
HandleSetTarget(index, target) ==
  /\ RequestReady
  /\ commands < MaxCommands
  /\ commands' = commands + 1
  /\ \E d \in EventDelays : now' = now + d
  /\ svcs' = set_target(cfg, svcs, index, now, target, procs)
  /\ ipc' = [req |-> SetTargetTag(target), svc |-> index, resp |-> "Okay",
             seen |-> svcs[index].state]
  /\ hist' = IF svcs[index].state = "Failed"
             THEN [hist EXCEPT ![index] = NoHist] ELSE hist
  /\ pipes' = [pipes EXCEPT !.settle = settle_set_target(svcs, index, @)]
  /\ pc' = "scan"
  /\ UNCHANGED <<cfg, images, wire, is_pid1, session, fds, saved, peers, served, shutting_down, exit_status, procs>>

\* Request::ServiceStarting(pid, name) from a supervisor that forked its payload
HandleServiceStarting(sup) ==
  /\ RequestReady
  /\ procs[sup].kind = "supervisor" /\ procs[sup].alive
  /\ procs[sup].stage = "announce"
  /\ \E d \in EventDelays : now' = now + d
  /\ svcs' = [svcs EXCEPT ![procs[sup].svc].pid = procs[sup].main,
                          ![procs[sup].svc].dirty = TRUE]
  /\ procs' = [procs EXCEPT ![sup].stage = "loop"]
  /\ ipc' = [req |-> "ServiceStarting", svc |-> procs[sup].svc, resp |-> "Okay",
             seen |-> "none"]
  /\ pc' = "scan"
  /\ UNCHANGED <<cfg, images, wire, is_pid1, session, fds, saved, pipes, peers, served, shutting_down, exit_status, commands, hist>>

\* the ancestor closest to the server of a live payload: what `conctl ready`
\* submits
ReadySenders ==
  {p \in Pids : procs[p].alive /\ cfg[procs[p].svc].ready = "Notify" /\
     \/ procs[p].kind = "direct"
     \/ procs[p].kind = "supervisor" /\ procs[p].main # NoPid /\ procs[procs[p].main].alive}

\* Request::ServiceReady(pid)
HandleServiceReady(pid) ==
  /\ RequestReady
  /\ pid \in ReadySenders
  /\ \E d \in EventDelays : now' = now + d
  /\ LET f == find_by_direct_or_supervisor_pid_mut(svcs, pid)
     IN  IF f = {}
         THEN /\ svcs' = svcs
              /\ ipc' = [req |-> "ServiceReady", svc |-> 0, resp |-> "ServiceNotFound",
                         seen |-> "none"]
         ELSE \E i \in f :
              /\ svcs' = [svcs EXCEPT ![i].ready = TRUE, ![i].dirty = TRUE]
              /\ ipc' = [req |-> "ServiceReady", svc |-> i, resp |-> "Okay",
                         seen |-> "none"]
  /\ pc' = "scan"
  /\ UNCHANGED <<cfg, images, wire, is_pid1, session, fds, saved, pipes, peers, served, shutting_down, exit_status, procs, commands, hist>>

----------------------------------------------------------------------------
(* Child processes (spawn.rs and the kernel) *)

\* a payload or direct child exits: by itself with 0 or 1, or killed by a
\* signal it was sent
ChildExit(p) ==
  /\ pc = "poll"
  /\ procs[p].kind \in {"direct", "payload"} /\ procs[p].alive
  /\ \E code \in {0, 1} \cup {128 + sig : sig \in procs[p].sigs} :
       procs' = [reparent(procs, p) EXCEPT ![p].alive = FALSE, ![p].code = code]
  /\ UNCHANGED <<cfg, images, wire, is_pid1, session, fds, saved, pipes, peers, served, svcs, now, pc, shutting_down, exit_status, ipc, commands, hist>>

\* run_supervisor forks the payload, or exits with 1 when that fails
SupervisorFork(sup) ==
  /\ pc = "poll"
  /\ procs[sup].kind = "supervisor" /\ procs[sup].alive
  /\ procs[sup].stage = "forking"
  /\ \E forkOk \in BOOLEAN :
       LET pid == fork(procs, forkOk)
       IN  IF pid = NoPid
           THEN procs' = [procs EXCEPT ![sup].alive = FALSE, ![sup].code = 1]
           ELSE procs' = [procs EXCEPT
                  ![sup].main = pid, ![sup].stage = "announce",
                  ![pid] = [FreeProc EXCEPT !.kind = "payload", !.svc = procs[sup].svc,
                                            !.phase = procs[sup].phase,
                                            !.alive = TRUE, !.parent = sup,
                                            !.pgid = pid]]
  /\ UNCHANGED <<cfg, images, wire, is_pid1, session, fds, saved, pipes, peers, served, svcs, now, pc, shutting_down, exit_status, ipc, commands, hist>>

\* the supervisor reads SIGTERM in its loop: it kills the payload, waits for
\* it and exits with its code
SupervisorSigterm(sup) ==
  /\ pc = "poll"
  /\ procs[sup].kind = "supervisor" /\ procs[sup].alive
  /\ procs[sup].stage = "loop"
  /\ SIGTERM \in procs[sup].sigs
  /\ LET main == procs[sup].main
         code == IF procs[main].alive THEN 128 + SIGKILL ELSE procs[main].code
     IN  procs' = supervisor_exit(procs, sup, main, code,
                                  cfg[procs[sup].svc].stop_all_children)
  /\ UNCHANGED <<cfg, images, wire, is_pid1, session, fds, saved, pipes, peers, served, svcs, now, pc, shutting_down, exit_status, ipc, commands, hist>>

\* the supervisor reaps its dead payload and exits with the payload's code
SupervisorReap(sup) ==
  /\ pc = "poll"
  /\ procs[sup].kind = "supervisor" /\ procs[sup].alive
  /\ procs[sup].stage = "loop"
  /\ ~procs[procs[sup].main].alive
  /\ procs' = supervisor_exit(procs, sup, procs[sup].main, procs[procs[sup].main].code,
                             cfg[procs[sup].svc].stop_all_children)
  /\ UNCHANGED <<cfg, images, wire, is_pid1, session, fds, saved, pipes, peers, served, svcs, now, pc, shutting_down, exit_status, ipc, commands, hist>>

\* the payload forks a process that ignores SIGTERM; the new process stays
\* in the process group of the payload or, with setsid or setpgid, makes
\* its own
PayloadFork(p) ==
  /\ pc = "poll"
  /\ procs[p].kind = "payload" /\ procs[p].alive
  /\ \E forkOk \in BOOLEAN : \E own \in BOOLEAN :
       LET pid == fork(procs, forkOk)
       IN  /\ pid # NoPid
           /\ procs' = [procs EXCEPT
                 ![pid] = [FreeProc EXCEPT !.kind = "descendant", !.svc = procs[p].svc,
                                           !.phase = procs[p].phase,
                                           !.alive = TRUE, !.parent = p,
                                           !.pgid = IF own THEN pid ELSE procs[p].pgid]]
  /\ UNCHANGED <<cfg, images, wire, is_pid1, session, fds, saved, pipes, peers, served, svcs, now, pc, shutting_down, exit_status, ipc, commands, hist>>

----------------------------------------------------------------------------

Next ==
  \/ Transition
  \/ ScanDone
  \/ PollTimeout
  \/ HandleShutdownSignal
  \/ HandleSigchld
  \/ \E i \in Idx : \E t \in Targets : HandleSetTarget(i, t)
  \/ \E p \in Pids : HandleServiceStarting(p)
  \/ \E p \in Pids : HandleServiceReady(p)
  \/ \E p \in Pids : ChildExit(p)
  \/ \E p \in Pids : SupervisorFork(p)
  \/ \E p \in Pids : SupervisorSigterm(p)
  \/ \E p \in Pids : SupervisorReap(p)

Spec == Init /\ [][Next]_vars

\* the server as PID 1 or as an ordinary process
SpecAnyPid == (Init \/ InitPid1) /\ [][Next]_vars

----------------------------------------------------------------------------
(* Re-exec (handle_signal.rs, session.rs, main.rs) *)

\* SIGHUP: the session is saved and the image replaced; when exec_self
\* fails the loop goes on
HandleSighup ==
  /\ pc = "poll"
  /\ commands < MaxCommands
  /\ commands' = commands + 1
  /\ \E d \in EventDelays : now' = now + d
  /\ session' = save(svcs, cfg)
  /\ \E execOk \in BOOLEAN :
       /\ pc' = IF execOk THEN "exec" ELSE "scan"
       /\ saved' = IF execOk THEN [svcs |-> svcs, procs |-> procs] ELSE NoSaved
  /\ ipc' = NoIpc
  /\ UNCHANGED <<cfg, images, wire, is_pid1, fds, svcs, shutting_down, exit_status, procs, hist,
                 pipes, peers, served>>

\* kill(pid, SIGTERM) for every pid of the set
RECURSIVE kill_all(_, _)
kill_all(table, pids) ==
  IF pids = {} THEN table
  ELSE LET p == CHOOSE q \in pids : TRUE
       IN  kill_all(kill(table, p, SIGTERM), pids \ {p})

\* ipc_server.respond(response): the message is written to the response
\* pipe; `to` is the peer whose request the server has read and not yet
\* answered, 0 when there is none
respond(p, h, val) ==
  LET to == IF Len(h.reads) > Len(h.writes)
            THEN h.reads[Len(h.writes) + 1].from ELSE 0
  IN  [p EXCEPT !.resp = Append(@, [to |-> to, val |-> val])]

\* the history after that response
responded(h, val) ==
  LET to == IF Len(h.reads) > Len(h.writes)
            THEN h.reads[Len(h.writes) + 1].from ELSE 0
  IN  [h EXCEPT !.writes = Append(@, [to |-> to, val |-> val])]

\* main() of the image with configuration c up to the loop: the table is
\* initialized, the session found at its fixed fd is loaded, and
\* resume_or_new responds Okay
Resume ==
  /\ pc = "exec"
  /\ cfg' \in images
  /\ LET c == cfg'
         r == deserialize(session, initialize(c, now), c)
     IN  /\ ~r.err
         /\ svcs' = r.svcs
         /\ procs' = kill_all(procs, r.kills)
         /\ fds' = fds \ r.closed
  /\ shutting_down' = FALSE
  /\ pc' = "scan"
  /\ ipc' = [NoIpc EXCEPT !.resp = "Okay"]
  /\ pipes' = respond(pipes, served, "Okay")
  /\ served' = responded(served, "Okay")
  /\ UNCHANGED <<images, wire, is_pid1, session, saved, now, exit_status, commands, hist,
                 peers>>

\* the server with SIGHUP, re-executing its own image
NextReexec == Next \/ HandleSighup \/ Resume

SpecReexec == Init /\ [][NextReexec]_vars

----------------------------------------------------------------------------
(* The request and response pipes (ipc_server.rs, ipc_client.rs) *)

\* handle_request: receive() reads what the request pipe holds and parses
\* the first message; every request but a successful Exec is responded to
HandleRequest ==
  /\ RequestReady
  /\ pipes.req # <<>>
  /\ \E d \in EventDelays : now' = now + d
  /\ LET request == Head(pipes.req)
         read == [served EXCEPT !.reads = Append(@, request)]
         taken == [pipes EXCEPT !.req = <<>>]
     IN  IF request.kind = "Exec"
         THEN /\ session' = save(svcs, cfg)
              /\ \E execOk \in BOOLEAN :
                   IF execOk
                   THEN /\ pc' = "exec"
                        /\ pipes' = taken
                        /\ served' = read
                        /\ ipc' = [NoIpc EXCEPT !.req = "Exec"]
                   ELSE /\ pc' = "scan"
                        /\ pipes' = respond(taken, read, "Failed")
                        /\ served' = responded(read, "Failed")
                        /\ ipc' = [NoIpc EXCEPT !.req = "Exec", !.resp = "Failed"]
         ELSE /\ pc' = "scan"
              /\ pipes' = respond(taken, read, svcs[1].state)
              /\ served' = responded(read, svcs[1].state)
              /\ ipc' = [NoIpc EXCEPT !.req = "QueryByIndexState", !.svc = 1,
                                      !.resp = "State"]
              /\ UNCHANGED session
  /\ UNCHANGED <<cfg, images, wire, is_pid1, fds, saved, svcs, shutting_down, exit_status, procs,
                 commands, hist, peers>>

\* the read loop of IpcClient::from_pid finds data in the response pipe
DrainRead(q) ==
  /\ peers[q].pc = "draining"
  /\ pipes.resp # <<>>
  /\ pipes' = [pipes EXCEPT !.resp = <<>>]
  /\ peers' = [peers EXCEPT ![q].drained = @ \cup {pipes.resp[k] : k \in DOMAIN pipes.resp}]
  /\ UNCHANGED <<cfg, images, wire, is_pid1, session, fds, saved, svcs, now, pc, shutting_down,
                 exit_status, procs, ipc, commands, hist, served>>

\* the read loop ends with EAGAIN and the pipe is set to blocking
DrainDone(q) ==
  /\ peers[q].pc = "draining"
  /\ pipes.resp = <<>>
  /\ peers' = [peers EXCEPT ![q].pc = "connected"]
  /\ UNCHANGED <<cfg, images, wire, is_pid1, session, fds, saved, svcs, now, pc, shutting_down,
                 exit_status, procs, ipc, commands, hist, pipes, served>>

\* lock_with_warning, lock_quiet: the write lock on the request pipe
Lock(q) ==
  /\ peers[q].pc = "connected"
  /\ pipes.lock = 0
  /\ pipes' = [pipes EXCEPT !.lock = q]
  /\ peers' = [peers EXCEPT ![q].pc = "locked"]
  /\ UNCHANGED <<cfg, images, wire, is_pid1, session, fds, saved, svcs, now, pc, shutting_down,
                 exit_status, procs, ipc, commands, hist, served>>

\* send_and_receive: the request is written
Send(q, kind) ==
  /\ peers[q].pc = "locked"
  /\ pipes' = [pipes EXCEPT !.req = Append(@, [from |-> q, kind |-> kind])]
  /\ peers' = [peers EXCEPT ![q].pc = "sent"]
  /\ UNCHANGED <<cfg, images, wire, is_pid1, session, fds, saved, svcs, now, pc, shutting_down,
                 exit_status, procs, ipc, commands, hist, served>>

\* send_and_receive: the blocking read returns what the response pipe holds
\* and the first message is parsed
Receive(q) ==
  /\ peers[q].pc = "sent"
  /\ pipes.resp # <<>>
  /\ pipes' = [pipes EXCEPT !.resp = <<>>]
  /\ peers' = [peers EXCEPT ![q].pc = "received", ![q].got = {Head(pipes.resp)}]
  /\ UNCHANGED <<cfg, images, wire, is_pid1, session, fds, saved, svcs, now, pc, shutting_down,
                 exit_status, procs, ipc, commands, hist, served>>

\* unlock, or the exit of the peer
Unlock(q) ==
  /\ peers[q].pc = "received"
  /\ pipes' = [pipes EXCEPT !.lock = 0]
  /\ peers' = [peers EXCEPT ![q].pc = "done"]
  /\ UNCHANGED <<cfg, images, wire, is_pid1, session, fds, saved, svcs, now, pc, shutting_down,
                 exit_status, procs, ipc, commands, hist, served>>

\* what a peer does
PeerStep(q, kinds) ==
  \/ DrainRead(q)
  \/ DrainDone(q)
  \/ Lock(q)
  \/ \E kind \in kinds : Send(q, kind)
  \/ Receive(q)
  \/ Unlock(q)

\* the server of a table without processes
InitIpc ==
  /\ Init
  /\ cfg = generate_internal_config(TableGroupLoop)

\* the server, its peers, their queries and Exec requests, and SIGHUP
NextIpc ==
  \/ Transition
  \/ ScanDone
  \/ HandleSighup
  \/ Resume
  \/ HandleRequest
  \/ \E q \in Peers : PeerStep(q, {"Query", "Exec"})

SpecIpc == InitIpc /\ [][NextIpc]_vars

\* the server and its peers with queries only, and no signal
NextPeers ==
  \/ Transition
  \/ ScanDone
  \/ HandleRequest
  \/ \E q \in Peers : PeerStep(q, {"Query"})

SpecPeers == InitIpc /\ [][NextPeers]_vars

----------------------------------------------------------------------------
(* The wire format of requests and responses (ipc/request.rs,              *)
(* ipc/response.rs, util/buf_writer.rs)                                    *)

\* Linux: writes of at most this size to a pipe are atomic
PIPE_BUF == 4096

MSG_SIZE == PIPE_BUF

\* size_of RequestHeader is 1, of usize 8, of StrLen 2
MSG_SVC_NAME_SIZE == PIPE_BUF - 1 - 8 - 2

MSG_PATH_SIZE == PIPE_BUF - 1 - 2 - 1

\* BufWriter::new over a buffer of n bytes; err is the Err(EOVERFLOW) that
\* the ? of the callers returns
BufWriter_new(n) == [len |-> n, data |-> <<>>, err |-> FALSE]

\* BufWriter::push without its bound: the mutant of push
push_Unchecked(w, data) ==
  IF w.err THEN w ELSE [w EXCEPT !.data = @ \o data]

\* BufWriter::push
push(w, data) ==
  IF w.err THEN w
  ELSE LET end == Len(w.data) + Len(data)
       IN  IF end > w.len THEN [w EXCEPT !.err = TRUE]
           ELSE [w EXCEPT !.data = @ \o data]

\* the header byte of a request
RequestHeader(tag) ==
  CASE tag = "Exec" -> 120
    [] tag = "QueryByIndexStatus" -> 97
    [] tag = "QueryByIndexName" -> 110
    [] tag = "QueryByIndexState" -> 115
    [] tag = "QueryByIndexTarget" -> 116
    [] tag = "QueryByIndexPid" -> 112
    [] tag = "QueryByIndexExitCode" -> 101
    [] tag = "QueryByIndexAttemptCount" -> 99
    [] tag = "QueryByIndexTime" -> 105
    [] tag = "QueryByNameStatus" -> 65
    [] tag = "QueryByNameState" -> 83
    [] tag = "QueryByNameTarget" -> 84
    [] tag = "QueryByNamePid" -> 80
    [] tag = "QueryByNameExitCode" -> 69
    [] tag = "QueryByNameAttemptCount" -> 67
    [] tag = "QueryByNameTime" -> 73
    [] tag = "QueryNeeds" -> 109
    [] tag = "QueryWants" -> 119
    [] tag = "QueryConflicts" -> 102
    [] tag = "QueryGroups" -> 103
    [] tag = "QueryByIndexLog" -> 108
    [] tag = "QueryByNameLog" -> 76
    [] tag = "SetTargetUp" -> 117
    [] tag = "SetTargetDown" -> 100
    [] tag = "SetTargetRestart" -> 114
    [] tag = "SetTargetOnce" -> 111
    [] tag = "QuerySettleFd" -> 113
    [] tag = "ServiceStarting" -> 71
    [] tag = "ServiceReady" -> 121
    [] tag = "DaemonReady" -> 89
    [] tag = "Invalid" -> 122

ByIndexTags ==
  {"QueryByIndexStatus", "QueryByIndexName", "QueryByIndexState",
   "QueryByIndexTarget", "QueryByIndexPid", "QueryByIndexExitCode",
   "QueryByIndexAttemptCount", "QueryByIndexTime", "QueryByIndexLog"}

ByNameTags ==
  {"QueryByNameStatus", "QueryByNameState", "QueryByNameTarget",
   "QueryByNamePid", "QueryByNameExitCode", "QueryByNameAttemptCount",
   "QueryByNameTime", "QueryByNameLog", "SetTargetUp", "SetTargetDown",
   "SetTargetRestart", "SetTargetOnce", "QuerySettleFd"}

DependencyTags == {"QueryNeeds", "QueryWants", "QueryConflicts", "QueryGroups"}

PidNameTags == {"ServiceStarting", "DaemonReady"}

RequestTags ==
  {"Exec", "ServiceReady", "Invalid"} \cup ByIndexTags \cup ByNameTags
    \cup DependencyTags \cup PidNameTags

\* a Request value: the fields its variant does not have are 0 and <<>>; the
\* name of an Exec is its path without the trailing NUL
Request(tag, index, name, pid) ==
  [tag |-> tag, index |-> index, name |-> name, pid |-> pid]

\* `len as StrLen`
as_StrLen(n) == n % 65536

\* Request::serialize into a buffer of MSG_SIZE bytes: the writer, whose data
\* is the message unless err
Request_serialize(r) ==
  LET w0 == push(BufWriter_new(MSG_SIZE), <<RequestHeader(r.tag)>>)
      str(w, s) == push(push(w, to_le_bytes(as_StrLen(Len(s)), 2)), s)
  IN  CASE r.tag = "Invalid" -> w0
        [] r.tag = "ServiceReady" -> push(w0, to_le_bytes(r.pid, 4))
        [] r.tag \in ByIndexTags -> push(w0, to_le_bytes(r.index, 8))
        [] r.tag \in ByNameTags -> str(w0, r.name)
        [] r.tag = "Exec" ->
             LET bytes == Append(r.name, 0)
             IN  IF Len(bytes) > MSG_PATH_SIZE + 1 THEN [w0 EXCEPT !.err = TRUE]
                 ELSE str(w0, bytes)
        [] r.tag \in DependencyTags ->
             str(push(w0, to_le_bytes(r.index, 8)), r.name)
        [] r.tag \in PidNameTags ->
             str(push(w0, to_le_bytes(r.pid, 4)), r.name)

\* an index that no table of the model has: what a usize that does not fit
\* 31 bits is read as
UsizeLarge == I32_MAX

\* usize::from_le_bytes
usize_from_le_bytes(b) ==
  IF b[4] >= 128 \/ \E k \in 5..8 : b[k] # 0 THEN UsizeLarge
  ELSE u32_from_le_bytes(SubSeq(b, 1, 4))

\* buf.get(offset..offset + n), offset counted from 0: a set
get(buf, offset, n) ==
  IF offset + n <= Len(buf) THEN {SubSeq(buf, offset + 1, offset + n)} ELSE {}

\* read!(&str) at offset: the string and the offset after it, as a set
read_str(buf, offset) ==
  {[val |-> s, offset |-> offset + 2 + Len(s)] :
     s \in UNION {get(buf, offset + 2, u16_from_le_bytes(l)) : l \in get(buf, offset, 2)}}

\* CStr::from_bytes_with_nul is Ok: one NUL, at the end
is_cstr(s) == Len(s) > 0 /\ s[Len(s)] = 0 /\ \A k \in 1..(Len(s) - 1) : s[k] # 0

\* Request::deserialize of the bytes read
Request_deserialize(buf) ==
  LET Invalid == Request("Invalid", 0, <<>>, 0)
      tags == IF buf = <<>> THEN {}
              ELSE {t \in RequestTags : RequestHeader(t) = buf[1]}
      one(set) == IF set = {} THEN Invalid ELSE CHOOSE r \in set : TRUE
  IN  IF tags = {} THEN Invalid
      ELSE LET tag == CHOOSE t \in tags : TRUE
           IN  CASE tag = "Invalid" -> Invalid
                 [] tag = "ServiceReady" ->
                      one({Request(tag, 0, <<>>, i32_from_le_bytes(b)) : b \in get(buf, 1, 4)})
                 [] tag \in ByIndexTags ->
                      one({Request(tag, usize_from_le_bytes(b), <<>>, 0) : b \in get(buf, 1, 8)})
                 [] tag \in ByNameTags ->
                      one({Request(tag, 0, s.val, 0) : s \in read_str(buf, 1)})
                 [] tag = "Exec" ->
                      one({Request(tag, 0, SubSeq(s.val, 1, Len(s.val) - 1), 0) :
                             s \in {s \in read_str(buf, 1) : is_cstr(s.val)}})
                 [] tag \in DependencyTags ->
                      one({Request(tag, usize_from_le_bytes(b), s.val, 0) :
                             b \in get(buf, 1, 8), s \in read_str(buf, 9)})
                 [] tag \in PidNameTags ->
                      one({Request(tag, 0, s.val, i32_from_le_bytes(b)) :
                             b \in get(buf, 1, 4), s \in read_str(buf, 5)})

\* the header byte of a response
ResponseHeader(tag) ==
  CASE tag = "Okay" -> 111
    [] tag = "Failed" -> 122
    [] tag = "ServiceNotFound" -> 120
    [] tag = "FieldIsNone" -> 88
    [] tag = "InvalidRequest" -> 90
    [] tag = "SettleDisabled" -> 81
    [] tag = "Status" -> 83
    [] tag = "State" -> 115
    [] tag = "Target" -> 116
    [] tag = "Pid" -> 112
    [] tag = "ExitCode" -> 101
    [] tag = "AttemptCount" -> 99
    [] tag = "Time" -> 84
    [] tag = "Name" -> 110
    [] tag = "Path" -> 80
    [] tag = "SettleFd" -> 113

ResponseTags ==
  {"Okay", "Failed", "ServiceNotFound", "FieldIsNone", "InvalidRequest",
   "SettleDisabled", "Status", "State", "Target", "Pid", "ExitCode",
   "AttemptCount", "Time", "Name", "Path", "SettleFd"}

\* a Response value without arguments; the arguments of the other variants
\* are set with EXCEPT: num is the pid, exit code, count, time or fd of the
\* variants with one integer, name the bytes of a Name or Path
Response(tag) ==
  [tag |-> tag, state |-> "Down", target |-> "Down", pid |-> NoPid,
   code |-> NoCode, num |-> 0, name |-> <<>>]

\* State::as_byte, Target::as_byte: the enums have the values the session
\* headers have
State_as_byte(state) == state_header(state)

Target_as_byte(target) == target_header(target)

MSG_PID_NONE_SENTINEL == -1

MSG_EXIT_CODE_NONE_SENTINEL == -1

\* Response::serialize into a buffer of MSG_SIZE bytes
Response_serialize(r) ==
  LET w0 == push(BufWriter_new(MSG_SIZE), <<ResponseHeader(r.tag)>>)
      str(w, s) == push(push(w, to_le_bytes(as_StrLen(Len(s)), 2)), s)
  IN  CASE r.tag \in {"Okay", "Failed", "ServiceNotFound", "FieldIsNone",
                      "InvalidRequest", "SettleDisabled"} -> w0
        [] r.tag = "State" -> push(w0, <<State_as_byte(r.state)>>)
        [] r.tag = "Target" -> push(w0, <<Target_as_byte(r.target)>>)
        [] r.tag \in {"Pid", "SettleFd", "ExitCode"} -> push(w0, to_le_bytes(r.num, 4))
        [] r.tag \in {"AttemptCount", "Time"} -> push(w0, to_le_bytes(r.num, 8))
        [] r.tag = "Status" ->
             LET w1 == push(w0, <<State_as_byte(r.state)>>)
                 w2 == push(w1, <<Target_as_byte(r.target)>>)
                 pid_wire == IF r.pid = NoPid THEN MSG_PID_NONE_SENTINEL ELSE r.pid
                 w3 == push(w2, to_le_bytes(pid_wire, 4))
                 code_wire == IF r.code = NoCode THEN MSG_EXIT_CODE_NONE_SENTINEL
                              ELSE r.code
                 w4 == push(w3, to_le_bytes(code_wire, 4))
             IN  push(w4, to_le_bytes(r.num, 8))
        [] r.tag \in {"Name", "Path"} -> str(w0, r.name)

----------------------------------------------------------------------------
(* handle_request on the bytes of the request pipe (handle_request.rs,     *)
(* ipc_server.rs)                                                          *)

\* ipc_server.receive(): one read of at most MSG_SIZE bytes of what the pipe
\* holds
receive(pipe) ==
  LET msg_len == IF Len(pipe) > MSG_SIZE THEN MSG_SIZE ELSE Len(pipe)
  IN  [buf |-> SubSeq(pipe, 1, msg_len), rest |-> SubSeq(pipe, msg_len + 1, Len(pipe))]

\* svcs.get(i): the first service of the model has the index 1, of the code 0
svcs_get(s, i) == IF i >= 0 /\ i < Len(s) THEN {i + 1} ELSE {}

\* list.get(i) of a list of indexes the model keeps as a set, in ascending
\* order
list_get(set, i) == {j \in set : Cardinality({k \in set : k < j}) = i}

\* the field a query asks for
QueryField(tag) ==
  CASE tag \in {"QueryByIndexStatus", "QueryByNameStatus"} -> "Status"
    [] tag = "QueryByIndexName" -> "Name"
    [] tag \in {"QueryByIndexState", "QueryByNameState"} -> "State"
    [] tag \in {"QueryByIndexTarget", "QueryByNameTarget"} -> "Target"
    [] tag \in {"QueryByIndexPid", "QueryByNamePid"} -> "Pid"
    [] tag \in {"QueryByIndexExitCode", "QueryByNameExitCode"} -> "ExitCode"
    [] tag \in {"QueryByIndexAttemptCount", "QueryByNameAttemptCount"} -> "AttemptCount"
    [] tag \in {"QueryByIndexTime", "QueryByNameTime"} -> "Time"
    [] tag \in {"QueryByIndexLog", "QueryByNameLog"} -> "Log"
    [] OTHER -> "none"

\* the response to a query of a field of the service i
query(c, s, i, field, t) ==
  LET svc == s[i]
      age == IF tv_sec(t) - tv_sec(svc.time) > 0 THEN tv_sec(t) - tv_sec(svc.time) ELSE 0
  IN  CASE field = "Status" ->
             [Response("Status") EXCEPT !.state = svc.state, !.target = svc.target,
                                        !.pid = svc.pid, !.code = svc.exit_code,
                                        !.num = age]
        [] field = "Name" -> [Response("Name") EXCEPT !.name = c[i].name]
        [] field = "State" -> [Response("State") EXCEPT !.state = svc.state]
        [] field = "Target" -> [Response("Target") EXCEPT !.target = svc.target]
        [] field = "Pid" ->
             IF svc.pid = NoPid THEN Response("FieldIsNone")
             ELSE [Response("Pid") EXCEPT !.num = svc.pid]
        [] field = "ExitCode" ->
             IF svc.exit_code = NoCode THEN Response("FieldIsNone")
             ELSE [Response("ExitCode") EXCEPT !.num = svc.exit_code]
        [] field = "AttemptCount" ->
             [Response("AttemptCount") EXCEPT !.num = svc.attempt_count]
        [] field = "Time" -> [Response("Time") EXCEPT !.num = age]
        \* Log::as_response; the tables of the model log to a service or not
        \* at all
        [] field = "Log" ->
             IF c[i].log \in DOMAIN s
             THEN [Response("Name") EXCEPT !.name = c[c[i].log].name]
             ELSE Response("FieldIsNone")

\* the list a dependency query reads
dependency_list(cf, tag) ==
  CASE tag = "QueryNeeds" -> cf.needs
    [] tag = "QueryWants" -> cf.wants
    [] tag = "QueryConflicts" -> cf.conflicts
    [] tag = "QueryGroups" -> cf.groups

SetTargetTags == {"SetTargetUp", "SetTargetDown", "SetTargetRestart", "SetTargetOnce"}

SetTargetOf(tag) ==
  CASE tag = "SetTargetUp" -> "Up"
    [] tag = "SetTargetDown" -> "Down"
    [] tag = "SetTargetRestart" -> "Restart"
    [] tag = "SetTargetOnce" -> "Once"

\* the match of handle_request on a request other than Exec: the table and
\* the response.  pipe is what Fd::new_pipe returns when QuerySettleFd
\* calls it: a pair of fds, or NoPipe for an Err
handle_request(c, s, request, t, p, pipe) ==
  LET tag == request.tag
      reply(resp) == [svcs |-> s, response |-> resp]
      NotFound == reply(Response("ServiceNotFound"))
      by_index == svcs_get(s, request.index)
      by_name == find_by_name_mut(c, request.name)
  IN  CASE tag \in ByIndexTags ->
             IF by_index = {} THEN NotFound
             ELSE reply(query(c, s, CHOOSE i \in by_index : TRUE, QueryField(tag), t))
        [] tag \in ByNameTags /\ QueryField(tag) # "none" ->
             IF by_name = {} THEN NotFound
             ELSE reply(query(c, s, CHOOSE i \in by_name : TRUE, QueryField(tag), t))
        [] tag \in DependencyTags ->
             IF by_name = {} THEN NotFound
             ELSE LET i == CHOOSE i \in by_name : TRUE
                      dep == UNION {svcs_get(s, d - 1) :
                                      d \in list_get(dependency_list(c[i], tag), request.index)}
                  IN  IF dep = {} THEN reply(Response("FieldIsNone"))
                      ELSE reply([Response("Name") EXCEPT
                                    !.name = c[CHOOSE d \in dep : TRUE].name])
        [] tag \in {"SetTargetUp", "SetTargetDown", "SetTargetRestart", "SetTargetOnce"} ->
             IF by_name = {} THEN NotFound
             ELSE [svcs |-> set_target(c, s, CHOOSE i \in by_name : TRUE, t,
                                       SetTargetOf(tag), p),
                   response |-> Response("Okay")]
        [] tag = "QuerySettleFd" ->
             IF by_name = {} THEN NotFound
             ELSE LET i == CHOOSE i \in by_name : TRUE
                  IN  IF s[i].settle_pipe # NoPipe
                      THEN reply([Response("SettleFd") EXCEPT !.num = s[i].settle_pipe[1]])
                      ELSE IF pipe = NoPipe THEN reply(Response("Failed"))
                      ELSE [svcs |-> [s EXCEPT ![i].settle_pipe = pipe],
                            response |-> [Response("SettleFd") EXCEPT !.num = pipe[1]]]
        [] tag = "ServiceStarting" ->
             IF by_name = {} THEN NotFound
             ELSE IF request.pid < 2 THEN reply(Response("InvalidRequest"))
             ELSE [svcs |-> [s EXCEPT ![CHOOSE i \in by_name : TRUE].pid = request.pid,
                                      ![CHOOSE i \in by_name : TRUE].dirty = TRUE],
                   response |-> Response("Okay")]
        [] tag = "ServiceReady" ->
             \* Some(pid) is never None, which the model keeps as NoPid
             LET f == IF request.pid = NoPid THEN {}
                      ELSE find_by_direct_or_supervisor_pid_mut(s, request.pid)
             IN  IF f = {} THEN NotFound
                 ELSE [svcs |-> [s EXCEPT ![CHOOSE i \in f : TRUE].ready = TRUE,
                                          ![CHOOSE i \in f : TRUE].dirty = TRUE],
                       response |-> Response("Okay")]
        [] tag = "DaemonReady" ->
             IF by_name = {} THEN NotFound
             ELSE IF request.pid < 2 THEN reply(Response("InvalidRequest"))
             ELSE [svcs |-> [s EXCEPT ![CHOOSE i \in by_name : TRUE].pid = request.pid,
                                      ![CHOOSE i \in by_name : TRUE].ready = TRUE,
                                      ![CHOOSE i \in by_name : TRUE].dirty = TRUE],
                   response |-> Response("Okay")]
        [] tag = "Invalid" -> reply(Response("InvalidRequest"))

\* Fd::new_pipe: the kernel hands out the two lowest descriptors not open
new_pipe(open) ==
  LET free == (3..(5 + Cardinality(open))) \ open
      a == CHOOSE n \in free : \A m \in free : n <= m
      b == CHOOSE n \in free \ {a} : \A m \in free \ {a} : n <= m
  IN  <<a, b>>

\* abort(): the process exits with 1, or as PID 1 stays in its loop forever
abort_pc(pid1) == IF pid1 THEN "aborted" ELSE "exited"

abort_status(pid1, status) == IF pid1 THEN status ELSE 1

\* handle_request of the bytes the request pipe holds.  The response is
\* serialized and written; an Err of the serialization aborts the server
ServeRequest ==
  /\ RequestReady
  /\ pipes.req # <<>>
  /\ \E d \in EventDelays : now' = now + d
  /\ LET got == receive(pipes.req)
         request == Request_deserialize(got.buf)
         read == [served EXCEPT !.reads = Append(@, [from |-> pipes.lock,
                                                     kind |-> request.tag])]
         named == find_by_name_mut(cfg, request.name)
         taken == [pipes EXCEPT !.req = got.rest,
                                !.settle = IF request.tag \in SetTargetTags /\ named # {}
                                           THEN settle_set_target(svcs,
                                                  CHOOSE i \in named : TRUE, @)
                                           ELSE @]
         Failed == Response_serialize(Response("Failed")).data
     IN  IF request.tag = "Exec"
         THEN /\ session' = save(svcs, cfg)
              /\ \E execOk \in BOOLEAN :
                   IF execOk
                   THEN /\ pc' = "exec"
                        /\ pipes' = taken
                        /\ served' = read
                        /\ ipc' = [NoIpc EXCEPT !.req = "Exec"]
                   ELSE /\ pc' = "scan"
                        /\ pipes' = respond(taken, read, Failed)
                        /\ served' = responded(read, Failed)
                        /\ ipc' = [NoIpc EXCEPT !.req = "Exec", !.resp = "Failed"]
              /\ UNCHANGED <<svcs, fds, exit_status>>
         ELSE \E pipe \in {NoPipe, new_pipe(fds)} :
              LET done == handle_request(cfg, svcs, request, now, procs, pipe)
                  out == Response_serialize(done.response)
              IN  /\ pipe # NoPipe =>
                       /\ request.tag = "QuerySettleFd"
                       /\ done.svcs # svcs
                  /\ svcs' = done.svcs
                  /\ fds' = IF done.svcs # svcs /\ request.tag = "QuerySettleFd"
                            THEN fds \cup pipe_fds(pipe) ELSE fds
                  /\ ipc' = [NoIpc EXCEPT !.req = request.tag,
                                          !.resp = done.response.tag]
                  /\ IF out.err
                     THEN /\ pc' = abort_pc(is_pid1)
                          /\ exit_status' = abort_status(is_pid1, exit_status)
                          /\ pipes' = taken
                          /\ served' = read
                     ELSE /\ pc' = "scan"
                          /\ exit_status' = exit_status
                          /\ pipes' = respond(taken, read, out.data)
                          /\ served' = responded(read, out.data)
                  /\ UNCHANGED session
  /\ UNCHANGED <<cfg, images, wire, is_pid1, saved, shutting_down, procs, commands,
                 hist, peers>>

\* a peer that holds the lock writes the bytes b to the request pipe
WriteRequest(q, b) ==
  /\ peers[q].pc = "locked"
  /\ pipes' = [pipes EXCEPT !.req = @ \o b]
  /\ peers' = [peers EXCEPT ![q].pc = "sent", ![q].wrote = b]
  /\ UNCHANGED <<cfg, images, wire, is_pid1, session, fds, saved, svcs, now, pc,
                 shutting_down, exit_status, procs, ipc, commands, hist, served>>

\* the peer runs its next command: it connects again
Reconnect(q) ==
  /\ peers[q].pc = "done"
  /\ commands < MaxCommands
  /\ commands' = commands + 1
  /\ peers' = [peers EXCEPT ![q] = NewPeer]
  /\ UNCHANGED <<cfg, images, wire, is_pid1, session, fds, saved, svcs, now, pc,
                 shutting_down, exit_status, procs, ipc, hist, pipes, served>>

----------------------------------------------------------------------------
(* The server and one peer that writes arbitrary bytes *)

\* a name of the table and a name of no table
WireNames(c) == {c[1].name, <<122>>}

\* the table the peer talks to
WireTable == generate_internal_config(TableGroupLoop)

\* well-formed requests of every variant
WireRequests(c, s) ==
  {Request(t, i, <<>>, 0) : t \in ByIndexTags, i \in {0, Len(s), UsizeLarge}}
    \cup {Request(t, 0, n, 0) : t \in ByNameTags, n \in WireNames(c)}
    \cup {Request(t, i, n, 0) : t \in DependencyTags, i \in {0, 1}, n \in WireNames(c)}
    \cup {Request(t, 0, n, p) : t \in PidNameTags, n \in WireNames(c), p \in {1, 2}}
    \cup {Request("ServiceReady", 0, <<>>, p) : p \in {0, 2}}
    \cup {Request("Exec", 0, path, 0) : path \in {<<>>, <<47>>}}
    \cup {Request("Invalid", 0, <<>>, 0)}

\* the request names a service of the table
Addressed(c, s, r) ==
  CASE r.tag \in ByIndexTags -> r.index < Len(s)
    [] r.tag \in ByNameTags \cup DependencyTags \cup PidNameTags ->
         \E i \in DOMAIN c : c[i].name = r.name
    [] r.tag = "ServiceReady" ->
         r.pid # NoPid /\ \E i \in DOMAIN s : r.pid \in {s[i].pid, s[i].supervisor_pid}
    [] r.tag = "Exec" -> TRUE
    [] r.tag = "Invalid" -> FALSE

\* a message cut short, one followed by a byte, one with a tag no request
\* has, and one that fills more than the buffer of the server
Truncated(b) == SubSeq(b, 1, Len(b) - 1)

Trailing(b) == Append(b, 0)

UnknownTag(b) == [b EXCEPT ![1] = 0]

Oversize(b) == b \o [k \in 1..(MSG_SIZE + 1 - Len(b)) |-> 0]

\* what the peer writes: the serialized requests and what is made of them
WireInputs(c, s) ==
  LET good == {Request_serialize(r).data : r \in WireRequests(c, s)}
      \* one request of each layout
      some == {Request_serialize(r).data :
                 r \in {Request("QueryByIndexState", 0, <<>>, 0),
                        Request("SetTargetDown", 0, c[1].name, 0),
                        Request("QueryByNameState", 0, <<122>>, 0),
                        Request("QueryNeeds", 0, c[1].name, 0),
                        Request("ServiceStarting", 0, c[1].name, 2),
                        Request("DaemonReady", 0, c[1].name, 2),
                        Request("ServiceReady", 0, <<>>, 2),
                        Request("Exec", 0, <<47>>, 0),
                        Request("Invalid", 0, <<>>, 0)}}
      big == {Request_serialize(r).data :
                r \in {Request("SetTargetDown", 0, c[1].name, 0),
                       Request("QueryByNameState", 0, <<122>>, 0),
                       Request("Invalid", 0, <<>>, 0)}}
  IN  good \cup {Truncated(b) : b \in {b \in some : Len(b) > 1}}
        \cup {Trailing(b) : b \in some}
        \cup {UnknownTag(b) : b \in some}
        \cup {Oversize(b) : b \in big}

\* the bytes are not a request that names a service of the table
Fault(c, s, b) ==
  ~\E r \in WireRequests(c, s) : Addressed(c, s, r) /\ Request_serialize(r).data = b

\* what the peer of the model writes
PeerInputs == WireInputs(WireTable, WireTable)

\* the peer connects once and sends one message
WirePeer ==
  \/ DrainDone(1)
  \/ Lock(1)
  \/ \E b \in PeerInputs : WriteRequest(1, b)
  \/ Receive(1)
  \/ Unlock(1)

NextWire ==
  \/ Transition
  \/ ScanDone
  \/ ServeRequest
  \/ Resume
  \/ WirePeer

InitWire ==
  /\ Init
  /\ cfg = WireTable
  /\ PeerInputs # {}

SpecWire == InitWire /\ [][NextWire]_vars

----------------------------------------------------------------------------
(* The settle commands of the control tool (conctl/cmd/settle.rs)          *)

\* State::from_byte, Target::from_byte: a set
State_from_byte(b) == {st \in States : State_as_byte(st) = b}

Target_from_byte(b) == {t \in Targets : Target_as_byte(t) = b}

\* Response::deserialize of the MSG_SIZE bytes of the client buffer that
\* start with the bytes read; tag "Err" stands for Err(EINVAL)
Response_deserialize(read) ==
  LET buf == [k \in 1..(IF Len(read) > 9 THEN Len(read) ELSE 9) |->
                IF k <= Len(read) THEN read[k] ELSE 0]
      Err == [Response("Failed") EXCEPT !.tag = "Err"]
      tags == {t \in ResponseTags : ResponseHeader(t) = buf[1]}
      tag == CHOOSE t \in tags : TRUE
      st == State_from_byte(buf[2])
      tg == Target_from_byte(buf[2])
  IN  IF tags = {} THEN Err
      ELSE CASE tag = "State" ->
                  IF st = {} THEN Err
                  ELSE [Response(tag) EXCEPT !.state = CHOOSE x \in st : TRUE]
             [] tag = "Target" ->
                  IF tg = {} THEN Err
                  ELSE [Response(tag) EXCEPT !.target = CHOOSE x \in tg : TRUE]
             [] tag \in {"Pid", "SettleFd", "ExitCode"} ->
                  [Response(tag) EXCEPT !.num = i32_from_le_bytes(SubSeq(buf, 2, 5))]
             [] tag \in {"AttemptCount", "Time"} ->
                  [Response(tag) EXCEPT !.num = i64_from_le_bytes(SubSeq(buf, 2, 9))]
             [] OTHER -> Response(tag)

\* Response::cmd_return_failed
cmd_return_failed(r) ==
  r.tag \in {"ServiceNotFound", "Failed", "InvalidRequest", "SettleDisabled"}

\* the peer after exit(status); the lock of a process ends with it
exited(peer, status) == [peer EXCEPT !.pc = "done", !.status = status]

\* the peer after it wrote the request r
requested(peer, at, r) ==
  [peer EXCEPT !.pc = at, !.wrote = Request_serialize(r).data]

\* settle_generic, the first loop: the target of the service is requested
SettleSetTarget(q, tag, name) ==
  /\ peers[q].pc = "locked"
  /\ LET r == Request(tag, 0, name, 0)
     IN  /\ pipes' = [pipes EXCEPT !.req = @ \o Request_serialize(r).data]
         /\ peers' = [peers EXCEPT ![q] = [requested(@, "settle_set", r) EXCEPT !.arg = name]]
  /\ UNCHANGED <<cfg, images, wire, is_pid1, session, fds, saved, svcs, now, pc,
                 shutting_down, exit_status, procs, ipc, commands, hist, served>>

\* a variant of the step below that takes every state for a stable one
settle_step_AnyState(peer, response) ==
  CASE peer.pc = "settle_set" ->
         IF cmd_return_failed(response) THEN [to |-> "exit", status |-> 1]
         ELSE [to |-> "settle_query", status |-> NoCode]
    [] peer.pc \in {"settle_query", "settle_requery"} /\ response.tag = "State" ->
         [to |-> "exit", status |-> IF bad(response.state) THEN 1 ELSE 0]
    [] peer.pc = "settle_fd" /\ response.tag = "SettleFd" ->
         [to |-> "settle_poll", status |-> NoCode]
    [] OTHER -> [to |-> "exit", status |-> 1]

\* what settle_generic does with the response to its last request: where it
\* goes on and, when it exits, with what.  Every unexpected response ends in
\* exit(1), directly or by abort_with_msg
settle_step(peer, response) ==
  CASE peer.pc = "settle_set" ->
         IF cmd_return_failed(response) THEN [to |-> "exit", status |-> 1]
         ELSE [to |-> "settle_query", status |-> NoCode]
    [] peer.pc = "settle_query" /\ response.tag = "State" ->
         IF stable(response.state)
         THEN [to |-> "exit", status |-> IF bad(response.state) THEN 1 ELSE 0]
         ELSE [to |-> "settle_fd", status |-> NoCode]
    [] peer.pc = "settle_fd" /\ response.tag = "SettleFd" ->
         [to |-> "settle_poll", status |-> NoCode]
    [] peer.pc = "settle_requery" /\ response.tag = "State" ->
         IF stable(response.state)
         THEN [to |-> "exit", status |-> IF bad(response.state) THEN 1 ELSE 0]
         ELSE [to |-> "settle_poll", status |-> NoCode]
    [] OTHER -> [to |-> "exit", status |-> 1]

\* a variant that keeps the lock while the command waits
settle_wait_Locked(p) == p

\* ipc_client.unlock() at the head of the poll loop of settle_generic: the
\* lock on the request pipe is released before poll() blocks
settle_wait(p) == [p EXCEPT !.lock = 0]

\* send_and_receive returns in settle_generic: the command exits, sends its
\* next request, or unlocks and blocks in poll()
SettleReceive(q) ==
  /\ peers[q].pc \in {"settle_set", "settle_query", "settle_fd", "settle_requery"}
  /\ pipes.resp # <<>>
  /\ LET response == Response_deserialize(Head(pipes.resp).val)
         step == settle_step(peers[q], response)
         got == [peers[q] EXCEPT !.got = {Head(pipes.resp)}]
         read == [pipes EXCEPT !.resp = <<>>]
         ask(at, r) ==
           /\ pipes' = [read EXCEPT !.req = @ \o Request_serialize(r).data]
           /\ peers' = [peers EXCEPT ![q] = requested(got, at, r)]
     IN  CASE step.to = "exit" ->
                /\ pipes' = [read EXCEPT !.lock = 0]
                /\ peers' = [peers EXCEPT ![q] = exited(got, step.status)]
           [] step.to = "settle_query" ->
                ask("settle_query", Request("QueryByNameState", 0, peers[q].arg, 0))
           [] step.to = "settle_fd" ->
                ask("settle_fd", Request("QuerySettleFd", 0, peers[q].arg, 0))
           [] step.to = "settle_poll" ->
                /\ pipes' = settle_wait(read)
                /\ peers' = [peers EXCEPT ![q] =
                     [got EXCEPT !.pc = "settle_poll",
                                 !.settle_fd = IF response.tag = "SettleFd"
                                               THEN response.num ELSE @]]
  /\ UNCHANGED <<cfg, images, wire, is_pid1, session, fds, saved, svcs, now, pc,
                 shutting_down, exit_status, procs, ipc, commands, hist, served>>

\* poll() finds the settle pipe readable; the lock is taken again and the
\* state is queried
SettlePoll(q) ==
  /\ peers[q].pc = "settle_poll"
  /\ peers[q].settle_fd \in pipes.settle
  /\ pipes.lock = 0
  /\ LET r == Request("QueryByNameState", 0, peers[q].arg, 0)
     IN  /\ pipes' = [pipes EXCEPT !.lock = q, !.req = @ \o Request_serialize(r).data]
         /\ peers' = [peers EXCEPT ![q] = requested(@, "settle_requery", r)]
  /\ UNCHANGED <<cfg, images, wire, is_pid1, session, fds, saved, svcs, now, pc,
                 shutting_down, exit_status, procs, ipc, commands, hist, served>>

\* the service the settle command of the model names: the first of the table
SettleTable == generate_internal_config(TableRetry)

SettleClient ==
  \/ DrainDone(1)
  \/ Lock(1)
  \/ \E tag \in SetTargetTags : SettleSetTarget(1, tag, SettleTable[1].name)
  \/ SettleReceive(1)
  \/ SettlePoll(1)

\* the server, the child of its service and one settle command
NextSettle ==
  \/ Transition
  \/ ScanDone
  \/ PollTimeout
  \/ HandleSigchld
  \/ \E p \in Pids : ChildExit(p)
  \/ ServeRequest
  \/ SettleClient

InitSettle ==
  /\ Init
  /\ cfg = SettleTable

SpecSettle == InitSettle /\ [][NextSettle]_vars

----------------------------------------------------------------------------
(* A supervised service whose payload forks descendants *)

\* the server of TableSupervised, its supervisors, their payloads and what
\* the payloads fork
NextDescendants ==
  \/ Transition
  \/ ScanDone
  \/ PollTimeout
  \/ HandleShutdownSignal
  \/ HandleSigchld
  \/ \E i \in Idx : \E t \in Targets : HandleSetTarget(i, t)
  \/ \E p \in Pids : HandleServiceStarting(p)
  \/ \E p \in Pids : ChildExit(p)
  \/ \E p \in Pids : SupervisorFork(p)
  \/ \E p \in Pids : SupervisorSigterm(p)
  \/ \E p \in Pids : SupervisorReap(p)
  \/ \E p \in Pids : PayloadFork(p)

InitDescendants ==
  /\ Init
  /\ cfg = generate_internal_config(TableSupervised)

SpecDescendants == InitDescendants /\ [][NextDescendants]_vars

----------------------------------------------------------------------------
(* A service whose target is Once from the start *)

\* o runs a program once and may fail twice; p is up without a program
TableOnce ==
  Named(<<Override(DEFAULT_SERVICE,
       [run |-> "Exec", init_target |-> "Once", max_attempt_count |-> 2]),
    DEFAULT_SERVICE>>)

InitOnce ==
  /\ check_config(TableOnce)
  /\ cfg = generate_internal_config(TableOnce)
  /\ svcs = initialize(cfg, 0)
  /\ now = 0
  /\ pc = "scan"
  /\ shutting_down = FALSE
  /\ exit_status = NoCode
  /\ procs = [p \in Pids |-> FreeProc]
  /\ ipc = NoIpc
  /\ commands = 0
  /\ hist = [i \in DOMAIN cfg |-> NoHist]
  /\ is_pid1 = FALSE
  /\ session = <<>>
  /\ fds = {}
  /\ saved = NoSaved
  /\ pipes = NoPipes
  /\ peers = [q \in Peers |-> NewPeer]
  /\ served = NoServed
  /\ images = {cfg}
  /\ wire = NoWire

NextOnce ==
  \/ Transition
  \/ ScanDone
  \/ PollTimeout
  \/ HandleShutdownSignal
  \/ HandleSigchld
  \/ \E i \in Idx : \E t \in Targets : HandleSetTarget(i, t)
  \/ \E p \in Pids : ChildExit(p)

SpecOnce == InitOnce /\ [][NextOnce]_vars

----------------------------------------------------------------------------
(* The target writes of set_target, in their order *)

\* the members of a list of indexes, which the model keeps as a set, in
\* ascending order
in_order(list) ==
  [k \in 1..Cardinality(list) |->
     CHOOSE x \in list : Cardinality({y \in list : y < x}) = k - 1]

\* the writes of one `for &i in list` loop: targets maps an index to what the
\* loop assigns to its target
loop_writes(pass, list, targets) ==
  [k \in 1..Cardinality(list) |->
     [pass |-> pass, index |-> in_order(list)[k], target |-> targets[in_order(list)[k]]]]

\* the assignments to a `target` field that set_target makes, in order:
\* apply_down of a Failed service, the service itself, the loops of the arm
\* of the target, and the loop over the groups
set_target_writes(c, s, index, target) ==
  LET cf == c[index]
      all(t) == [k \in DOMAIN s |-> t]
      failed == IF s[index].state = "Failed" /\ s[index].target \in {"Restart", "Once"}
                THEN <<[pass |-> "apply_down", index |-> index,
                        target |-> collapse_target(s[index].target)]>>
                ELSE <<>>
      own == <<[pass |-> "self", index |-> index, target |-> target]>>
      t1 == [k \in DOMAIN s |-> IF k = index THEN target ELSE s[k].target]
      dependents == {k \in cf.target_down_propagate_down : t1[k] \in {"Up", "Once"}}
      t2 == [k \in DOMAIN s |->
               IF k \in dependents THEN restart_dependent(t1[k]) ELSE t1[k]]
      dependencies == {k \in cf.target_up_propagate_up : t2[k] = "Down"}
      arm == CASE target \in {"Up", "Once"} ->
                    loop_writes("up", cf.target_up_propagate_up, all("Up"))
                      \o loop_writes("down", cf.target_up_propagate_down, all("Down"))
               [] target = "Down" ->
                    loop_writes("down", cf.target_down_propagate_down, all("Down"))
               [] target = "Restart" ->
                    loop_writes("dependents", dependents, t2)
                      \o loop_writes("up", dependencies, all("Up"))
                      \o loop_writes("down", cf.target_up_propagate_down, all("Down"))
  IN  failed \o own \o arm \o loop_writes("groups", cf.groups, all(target))

\* the targets of the table s after the writes w
written(s, w) ==
  [k \in DOMAIN s |->
     LET at == {n \in DOMAIN w : w[n].index = k}
     IN  IF at = {} THEN s[k].target
         ELSE w[CHOOSE n \in at : \A m \in at : m <= n].target]

\* the total length of the propagation arrays of a service
arrays_len(cf) ==
  Cardinality(cf.target_up_propagate_up) + Cardinality(cf.target_up_propagate_down)
    + Cardinality(cf.target_down_propagate_down) + Cardinality(cf.groups)

\* the step is handle_request of SetTarget(i, t)
SetTargetStep(i, t) ==
  /\ pc = "poll" /\ pc' = "scan"
  /\ ipc'.req = SetTargetTag(t) /\ ipc'.svc = i

----------------------------------------------------------------------------
(* Serialization of sampled Request and Response values *)

\* lengths of names and paths around the limits of the buffer, and one that
\* does not fit StrLen
CodecLens ==
  {0, 1, MSG_SVC_NAME_SIZE, MSG_SVC_NAME_SIZE + 1, MSG_PATH_SIZE, MSG_PATH_SIZE + 1,
   MSG_SIZE - 3, MSG_SIZE - 2, MSG_SIZE, 65537}

\* a name or path of n bytes
Bytes(n) == [k \in 1..n |-> 97]

CodecRequests ==
  {Request(t, i, <<>>, 0) : t \in ByIndexTags, i \in {0, UsizeLarge}}
    \cup {Request(t, 0, Bytes(n), 0) : t \in ByNameTags \cup {"Exec"}, n \in CodecLens}
    \cup {Request(t, UsizeLarge, Bytes(n), 0) : t \in DependencyTags, n \in CodecLens}
    \cup {Request(t, 0, Bytes(n), MaxPid) : t \in PidNameTags, n \in CodecLens}
    \cup {Request("ServiceReady", 0, <<>>, p) : p \in {-1, MaxPid}}
    \cup {Request("Invalid", 0, <<>>, 0)}

CodecResponses ==
  {Response(t) : t \in {"Okay", "Failed", "ServiceNotFound", "FieldIsNone",
                        "InvalidRequest", "SettleDisabled"}}
    \cup {[Response("Status") EXCEPT !.state = st, !.target = tg, !.pid = p,
                                     !.code = code, !.num = n] :
            st \in {"Down", "CannotStop"}, tg \in {"Down", "Once"},
            p \in {NoPid, MaxPid}, code \in {NoCode, 255}, n \in {0, I32_MAX}}
    \cup {[Response("State") EXCEPT !.state = st] : st \in States}
    \cup {[Response("Target") EXCEPT !.target = tg] : tg \in Targets}
    \cup {[Response(t) EXCEPT !.num = n] :
            t \in {"Pid", "ExitCode", "AttemptCount", "Time", "SettleFd"},
            n \in {0, I32_MAX}}
    \cup {[Response(t) EXCEPT !.name = Bytes(n)] : t \in {"Name", "Path"}, n \in CodecLens}

\* a peer is about to send the request r
ComposeRequest(r) ==
  /\ wire.kind = "none"
  /\ wire' = [wire EXCEPT !.kind = "request", !.value = r]
  /\ UNCHANGED <<cfg, images, is_pid1, session, fds, saved, svcs, now, pc,
                 shutting_down, exit_status, procs, ipc, commands, hist, pipes,
                 peers, served>>

\* the server is about to respond with r
ComposeResponse(r) ==
  /\ wire.kind = "none"
  /\ wire' = [wire EXCEPT !.kind = "response", !.value = r]
  /\ UNCHANGED <<cfg, images, is_pid1, session, fds, saved, svcs, now, pc,
                 shutting_down, exit_status, procs, ipc, commands, hist, pipes,
                 peers, served>>

\* send_and_receive and respond: the value is serialized into the buffer of
\* MSG_SIZE bytes and the first msg_len bytes of it are written to the pipe;
\* an Err of the serialization aborts instead
WriteMessage ==
  /\ wire.kind \in {"request", "response"}
  /\ wire.written = <<>> /\ ~wire.aborted
  /\ LET out == IF wire.kind = "request" THEN Request_serialize(wire.value)
                ELSE Response_serialize(wire.value)
     IN  wire' = IF out.err THEN [wire EXCEPT !.aborted = TRUE]
                 ELSE [wire EXCEPT !.written = out.data]
  /\ UNCHANGED <<cfg, images, is_pid1, session, fds, saved, svcs, now, pc,
                 shutting_down, exit_status, procs, ipc, commands, hist, pipes,
                 peers, served>>

NextCodec ==
  \/ \E r \in CodecRequests : ComposeRequest(r)
  \/ \E r \in CodecResponses : ComposeResponse(r)
  \/ WriteMessage

InitCodec ==
  /\ InitWire
  /\ CodecRequests # {}
  /\ CodecResponses # {}

SpecCodec == InitCodec /\ [][NextCodec]_vars

----------------------------------------------------------------------------
(* The session store on sampled service records *)

\* l is a log sink, a logs into l, b stands alone
TableSession ==
  <<Override(DEFAULT_SERVICE, [name |-> <<108>>, run |-> "Exec"]),
    Override(DEFAULT_SERVICE, [name |-> <<97>>, run |-> "Exec", log |-> 1]),
    Override(DEFAULT_SERVICE, [name |-> <<98>>, run |-> "Exec",
                               init_target |-> "Once"])>>

\* the images the saved session is resumed by: the same table, the table
\* without a, the table without l, the table reordered, the table with a
\* new service n, and the table in which a no longer logs into l
SessionImages ==
  LET T == TableSession
  IN  { T,
        <<T[1], [T[2] EXCEPT !.log = 0], T[3]>>,
        <<T[1], T[3]>>,
        <<[T[2] EXCEPT !.log = 0], T[3]>>,
        <<T[3], T[1], [T[2] EXCEPT !.log = 2]>>,
        T \o <<Override(DEFAULT_SERVICE, [name |-> <<110>>, init_target |-> "Restart"])>> }

\* a record of service i that runs a direct child
SampleBase(i) ==
  [ state |-> "Up", target |-> "Up", pid |-> i + 1, supervisor_pid |-> NoPid,
    stdin_pipe |-> NoPipe, exit_code |-> NoCode, attempt_count |-> 0,
    time |-> Tick, ready |-> FALSE, dirty |-> FALSE, settle_pipe |-> NoPipe ]

\* records within the declared ranges of the fields: the base record with one
\* field changed, and a record with every optional field present; only a
\* log sink has a stdin_pipe
SampleRecords(c, i) ==
  LET b == SampleBase(i)
  IN  {[b EXCEPT !.state = st] : st \in States}
        \cup {[b EXCEPT !.target = t] : t \in Targets}
        \cup {[b EXCEPT !.pid = v] : v \in {NoPid, 91, 70000 + i}}
        \cup {[b EXCEPT !.pid = v, !.supervisor_pid = i + 1] : v \in {NoPid, 80000 + i}}
        \cup {[b EXCEPT !.exit_code = v] : v \in {0, 1, 93, 137, 256, -2, I32_MAX}}
        \cup {[b EXCEPT !.attempt_count = v] : v \in {1, 300, I32_MAX}}
        \cup {[b EXCEPT !.time = v] : v \in {0, 1, 999, 1001, 65536000, I32_MAX}}
        \cup {[b EXCEPT !.ready = TRUE], [b EXCEPT !.dirty = TRUE]}
        \cup {[b EXCEPT !.settle_pipe = <<20 + 2 * i, 21 + 2 * i>>]}
        \cup {[b EXCEPT !.state = "Stopping", !.target = "Restart",
                        !.supervisor_pid = 90000 + i, !.exit_code = 143,
                        !.attempt_count = 2, !.time = 2500, !.ready = TRUE,
                        !.settle_pipe = <<20 + 2 * i, 21 + 2 * i>>,
                        !.stdin_pipe = IF c[i].is_logger THEN <<10, 11>> ELSE NoPipe]}
        \cup (IF c[i].is_logger THEN {[b EXCEPT !.stdin_pipe = <<10, 11>>]} ELSE {})

\* the process table that goes with a service table
SampleProcs(s) ==
  [p \in Pids |->
     IF \E i \in DOMAIN s : s[i].pid = p
     THEN [FreeProc EXCEPT !.kind = "direct", !.alive = TRUE, !.phase = "run",
                           !.svc = CHOOSE i \in DOMAIN s : s[i].pid = p]
     ELSE IF \E i \in DOMAIN s : s[i].supervisor_pid = p
     THEN [FreeProc EXCEPT !.kind = "supervisor", !.alive = TRUE, !.phase = "run",
                           !.stage = "loop",
                           !.svc = CHOOSE i \in DOMAIN s : s[i].supervisor_pid = p]
     ELSE FreeProc]

\* the server polls with a table in which one record is a sample and the
\* others are base records, or in which every record has every field set
InitSession ==
  /\ cfg = generate_internal_config(TableSession)
  /\ \E k \in DOMAIN cfg : \E r \in SampleRecords(cfg, k) :
       svcs = [i \in DOMAIN cfg |-> IF i = k THEN r ELSE SampleBase(i)]
  /\ now = Tick
  /\ pc = "poll"
  /\ shutting_down \in BOOLEAN
  /\ exit_status = NoCode
  /\ procs = SampleProcs(svcs)
  /\ ipc = NoIpc
  /\ commands = 0
  /\ hist = [i \in DOMAIN cfg |-> NoHist]
  /\ is_pid1 = FALSE
  /\ session = <<>>
  /\ fds = UNION {pipe_fds(svcs[i].stdin_pipe) \cup pipe_fds(svcs[i].settle_pipe) :
                    i \in DOMAIN svcs}
  /\ saved = NoSaved
  /\ pipes = NoPipes
  /\ peers = [q \in Peers |-> NewPeer]
  /\ served = NoServed
  /\ images = {generate_internal_config(t) :
                  t \in {t \in SessionImages : check_config(t)}}
  /\ wire = NoWire

NextSession == HandleSighup \/ Resume

\* save and load of the session, between images with different tables
SpecSession == InitSession /\ [][NextSession]_vars

----------------------------------------------------------------------------
(* Start and stop ordering *)

\* the services that need, want, group or log into i, read off the user's
\* configuration
Dependents(i) ==
  {d \in Idx : i \in cfg[d].needs \cup cfg[d].wants \cup cfg[d].groups \/ cfg[d].log = i}

\* C1: a service leaves WaitingToStart for SettingUp only in a step in which
\* its target is Up or Once, every service it needs is Up, every service it
\* wants is Up, Failed or CannotStop, and every service it conflicts with is
\* Down or Failed.
C1_StartOnlyWhenSatisfied ==
  [][\A i \in Idx :
       (svcs[i].state = "WaitingToStart" /\ svcs'[i].state = "SettingUp") =>
         /\ svcs[i].target \in {"Up", "Once"}
         /\ \A d \in cfg[i].needs : svcs[d].state = "Up" /\ svcs'[d].state = "Up"
         /\ \A d \in cfg[i].wants : svcs[d].state \in {"Up", "Failed", "CannotStop"}
         /\ \A d \in cfg[i].conflicts : svcs[d].state \in {"Down", "Failed"}]_vars

\* a service that needs another one has entered SettingUp, and one that
\* conflicts with another has too
C1_Witness ==
  \E i \in Idx :
     /\ cfg[i].needs # {}
     /\ svcs[i].state = "SettingUp"
     /\ svcs[i].target = "Up"
     /\ \A d \in cfg[i].needs : cfg[d].run = "Exec" /\ svcs[d].state = "Up"

\* C2: a service in WaitingToStop moves to Stopping only with target Down or
\* Restart and only when every service that needs, wants, groups or logs
\* into it is Down, WaitingToStart, Failed or CannotStop; the child whose pid
\* is recorded is sent SIGTERM in that step.
C2_StopOnlyWhenDependentsStopped ==
  [][\A i \in Idx :
       (svcs[i].state = "WaitingToStop" /\ svcs'[i].state = "Stopping") =>
         /\ svcs[i].target \in {"Down", "Restart"}
         /\ \A d \in Dependents(i) :
              svcs[d].state \in {"Down", "WaitingToStart", "Failed", "CannotStop"}
         /\ (svcs[i].pid # NoPid /\ procs[svcs[i].pid].alive) =>
              SIGTERM \in procs'[svcs[i].pid].sigs]_vars

\* a service with dependents is Stopping and its child has been sent SIGTERM
C2_Witness ==
  \E i \in Idx :
     /\ Dependents(i) # {}
     /\ svcs[i].state = "Stopping"
     /\ svcs[i].pid # NoPid
     /\ SIGTERM \in procs[svcs[i].pid].sigs
     /\ \E d \in Dependents(i) : svcs[d].state = "Down" /\ svcs[d].time > 0

----------------------------------------------------------------------------
(* The happy paths *)

\* a phase had to be spawned in the pass over i and no process was created:
\* fork failed
SpawnFailed(i) ==
  LET ns == NextState_new(cfg, svcs, i, now)
  IN  /\ \/ ns = "SettingUp" /\ cfg[i].setup # "None"
         \/ ns = "Starting" /\ cfg[i].run # "None"
         \/ ns = "CleaningUp" /\ cfg[i].cleanup # "None"
      /\ procs' = procs

\* the setup child of i has been reaped with a status other than 0, or the
\* run child of i is gone
PhaseFailed(i) ==
  \/ /\ svcs[i].state = "SettingUp" /\ cfg[i].setup # "None"
     /\ svcs[i].pid = NoPid /\ svcs[i].supervisor_pid = NoPid
     /\ svcs[i].exit_code # 0
  \/ /\ svcs[i].state \in {"Starting", "Up"} /\ cfg[i].run # "None"
     /\ svcs[i].pid = NoPid /\ svcs[i].supervisor_pid = NoPid

\* the setup child of i is still there when max_setup_time_millis is over
PhaseSlow(i) ==
  /\ svcs[i].state = "SettingUp" /\ cfg[i].setup # "None"
  /\ cfg[i].max_setup_time_millis # NoLimit
  /\ now - svcs[i].time >= cfg[i].max_setup_time_millis

\* a pid is recorded for i in a state that has no child
StrayProcess(i) ==
  /\ svcs[i].pid # NoPid \/ svcs[i].supervisor_pid # NoPid
  /\ \/ svcs[i].state \in {"Down", "WaitingToStart"}
     \/ svcs[i].state = "SettingUp" /\ cfg[i].setup = "None"
     \/ svcs[i].state \in {"Starting", "Up"} /\ cfg[i].run = "None"

\* the steps of the way up
UpwardSteps ==
  { <<"Down", "WaitingToStart">>, <<"WaitingToStart", "SettingUp">>,
    <<"SettingUp", "Starting">>, <<"Starting", "Up">> }

\* i is on its way up, its target stays Up and nothing fails in this step
TrivialUp(i) ==
  /\ cfg[i].ready = "Immediately"
  /\ svcs[i].target = "Up" /\ svcs'[i].target = "Up"
  /\ svcs[i].state \in {"Down", "WaitingToStart", "SettingUp", "Starting", "Up"}
  /\ ~SpawnFailed(i) /\ ~PhaseFailed(i) /\ ~PhaseSlow(i) /\ ~StrayProcess(i)

\* C3: a service with target Up whose phases succeed and whose readiness is
\* immediate is seen in Down, WaitingToStart, SettingUp, Starting, Up in
\* that order with no other state in between, and stays Up.
C3_HappyPathUp ==
  [][\A i \in Idx :
       (TrivialUp(i) /\ svcs'[i].state # svcs[i].state) =>
          <<svcs[i].state, svcs'[i].state>> \in UpwardSteps]_vars

\* the way up, for the services whose setup child is not put under an
\* intermediate supervisor: this part holds
HappyPathUpDirect ==
  [][\A i \in Idx :
       (TrivialUp(i) /\ svcs'[i].state # svcs[i].state
          /\ ~(cfg[i].stop_all_children /\ cfg[i].setup # "None")) =>
          <<svcs[i].state, svcs'[i].state>> \in UpwardSteps]_vars

\* the child of i was sent SIGTERM and is still recorded when
\* max_stop_time_millis is over: it ignores the signal, or its exit has not
\* been reported yet
StopSlow(i) ==
  /\ svcs[i].state = "Stopping"
  /\ svcs[i].pid # NoPid /\ SIGTERM \in procs[svcs[i].pid].sigs
  /\ cfg[i].max_stop_time_millis # NoLimit
  /\ now - svcs[i].time >= cfg[i].max_stop_time_millis

\* the intermediate supervisor of i has not announced its child when
\* max_stop_time_millis is over
SupervisorSlow(i) ==
  /\ svcs[i].state = "Stopping"
  /\ svcs[i].pid = NoPid /\ svcs[i].supervisor_pid # NoPid
  /\ cfg[i].max_stop_time_millis # NoLimit
  /\ now - svcs[i].time >= cfg[i].max_stop_time_millis

\* the cleanup child of i is still there when max_cleanup_time_millis is over
CleanupSlow(i) ==
  /\ svcs[i].state = "CleaningUp" /\ cfg[i].cleanup # "None"
  /\ cfg[i].max_cleanup_time_millis # NoLimit
  /\ now - svcs[i].time >= cfg[i].max_cleanup_time_millis

\* the steps of the way down
DownwardSteps ==
  { <<"Up", "WaitingToStop">>, <<"WaitingToStop", "Stopping">>,
    <<"Stopping", "CleaningUp">>, <<"CleaningUp", "Down">> }

\* i is on its way down, its target stays Down, its child obeys SIGTERM and
\* its cleanup is spawned and ends in time
TrivialDown(i) ==
  /\ svcs[i].target = "Down" /\ svcs'[i].target = "Down"
  /\ svcs[i].state \in {"Up", "WaitingToStop", "Stopping", "CleaningUp", "Down"}
  /\ ~SpawnFailed(i) /\ ~StopSlow(i) /\ ~SupervisorSlow(i) /\ ~CleanupSlow(i)

\* C4: a service that is Up and whose target is set to Down, whose child
\* exits on SIGTERM, is seen in WaitingToStop, Stopping, CleaningUp, Down in
\* that order with no other state in between, and stays Down.
C4_HappyPathDown ==
  [][\A i \in Idx :
       (TrivialDown(i) /\ svcs'[i].state # svcs[i].state) =>
          <<svcs[i].state, svcs'[i].state>> \in DownwardSteps]_vars

\* the way down, for the services whose child is spawned directly
HappyPathDownDirect ==
  [][\A i \in Idx :
       (TrivialDown(i) /\ svcs'[i].state # svcs[i].state
          /\ ~cfg[i].stop_all_children) =>
          <<svcs[i].state, svcs'[i].state>> \in DownwardSteps]_vars

----------------------------------------------------------------------------
(* Retry bound *)

\* the run child of service i ended every time it was started, and nothing
\* else made the service fail, since it last entered Down
AlwaysFailedRun(i) == cfg[i].run # "None" /\ ~hist[i].other

\* the number of attempts a service with max_attempt_count = k is given
Attempts(k) == IF k = 0 THEN 1 ELSE k

RetryForeverWitness ==
  \E i \in Idx :
    /\ cfg[i].max_attempt_count = NoLimit
    /\ svcs[i].state = "Retrying"
    /\ AlwaysFailedRun(i)
    /\ hist[i].starts = 2

----------------------------------------------------------------------------
(* Retry delay *)

\* the retry policies whose delay is computed on its own: no delay, the
\* shortest delay and the delay of the tables, fixed and doubling
DelayPeriods == {0, 1, Tick}

DelayTables ==
  {Named(<<Override(DEFAULT_SERVICE,
        [run |-> "Exec", retry_wait_period_millis |-> p,
         retry_wait_multiplier |-> m, max_attempt_count |-> NoLimit])>>) :
     p \in DelayPeriods, m \in {1, 2}}

\* a service that has just failed for the first time
InitRetryDelay ==
  /\ cfg \in {generate_internal_config(t) : t \in {t \in DelayTables : check_config(t)}}
  /\ svcs = [i \in DOMAIN cfg |->
               apply_failed_or_retry(initialize(cfg, 0)[i], cfg[i])]
  /\ now = 0
  /\ pc = "retry_delay"
  /\ shutting_down = FALSE
  /\ exit_status = NoCode
  /\ procs = [p \in Pids |-> FreeProc]
  /\ ipc = NoIpc
  /\ commands = 0
  /\ hist = [i \in DOMAIN cfg |-> NoHist]
  /\ is_pid1 = FALSE
  /\ session = <<>>
  /\ fds = {}
  /\ saved = NoSaved
  /\ pipes = NoPipes
  /\ peers = [q \in Peers |-> NewPeer]
  /\ served = NoServed
  /\ images = {cfg}
  /\ wire = NoWire

\* the delay of the service record, as Service::retry_delay_millis gives it
delay_of(cf, svc) ==
  retry_delay_millis(cf.retry_wait_period_millis, cf.retry_wait_multiplier,
                     svc.attempt_count)

\* the i64 product for attempt_count n fits a 32-bit integer of TLC
Representable(cf, n) ==
  IF cf.retry_wait_period_millis = 0 THEN TRUE
  ELSE saturating_pow(cf.retry_wait_multiplier, n)
         <= I32_MAX \div cf.retry_wait_period_millis

\* the service fails once more: apply_failed_or_retry without a limit
FailAgain ==
  /\ pc = "retry_delay"
  /\ \E i \in Idx :
       /\ svcs[i].attempt_count < MaxDelayAttempt
       /\ Representable(cfg[i], svcs[i].attempt_count + 1)
       /\ svcs' = [svcs EXCEPT ![i] = apply_failed_or_retry(@, cfg[i])]
  /\ UNCHANGED <<cfg, images, wire, is_pid1, session, fds, saved, pipes, peers, served, now, pc, shutting_down, exit_status, procs, ipc, commands, hist>>

NextRetryDelay == Next \/ FailAgain

\* the server, together with the retry delay computed for growing attempt counts
SpecRetryDelay == (Init \/ InitRetryDelay) /\ [][NextRetryDelay]_vars

RECURSIVE Pow(_, _)
Pow(b, e) == IF e = 0 THEN 1 ELSE b * Pow(b, e - 1)

\* initial_delay_ms * multiplier^(n - 1) for a service after its n-th failure
ExpectedDelay(cf, svc) ==
  cf.retry_wait_period_millis * Pow(cf.retry_wait_multiplier, svc.attempt_count - 1)

Upward == {"Up", "Once"}

\* C6: a service enters Retrying with its attempt_count raised by one and its
\* time set to now; with an upward target it leaves Retrying only for
\* WaitingToStart and not before initial_delay * multiplier^(n-1) ms have
\* passed; while it waits, poll() never blocks beyond the end of that delay;
\* and the computed delay is never negative and never decreases as n grows.
C6_RetryDelay ==
  [][/\ pc # "retry_delay" => \A i \in Idx :
          /\ (svcs[i].state # "Retrying" /\ svcs'[i].state = "Retrying") =>
                /\ svcs'[i].time = now
                /\ svcs'[i].attempt_count = svcs[i].attempt_count + 1
          /\ (svcs[i].state = "Retrying" /\ svcs[i].target \in Upward
                 /\ svcs'[i].state # "Retrying") =>
                /\ svcs'[i].state = "WaitingToStart"
                /\ millis_since(now, svcs[i].time) >= ExpectedDelay(cfg[i], svcs[i])
          /\ (pc' = "poll" /\ svcs'[i].state = "Retrying"
                 /\ svcs'[i].target \in Upward) =>
                LET t   == calculate_poll_timeout(cfg, svcs', now').timeout
                    due == svcs'[i].time + ExpectedDelay(cfg[i], svcs'[i])
                IN  /\ t # {}
                    /\ \A x \in t : now' + x <= (IF due < now' THEN now' ELSE due)
     /\ pc = "retry_delay" => \A i \in Idx :
          /\ delay_of(cfg[i], svcs[i]) >= 0
          /\ delay_of(cfg[i], svcs'[i]) >= delay_of(cfg[i], svcs[i])]_vars

\* a service whose delay doubles is started again after its second failure
C6_Witness ==
  \E i \in Idx :
    /\ cfg[i].retry_wait_multiplier = 2
    /\ cfg[i].retry_wait_period_millis = Tick
    /\ svcs[i].state = "WaitingToStart"
    /\ svcs[i].attempt_count = 2
    /\ svcs[i].time = 3 * Tick

\* the power of two has saturated at i32::MAX
SaturatedWitness ==
  \E i \in Idx :
    /\ pc = "retry_delay"
    /\ svcs[i].attempt_count = MaxDelayAttempt
    /\ delay_of(cfg[i], svcs[i]) = I32_MAX

----------------------------------------------------------------------------
(* Escalation of a stop *)

\* poll() does not block beyond the moment service i has spent limit
\* milliseconds in its state
WokenAfter(i, limit) ==
  LET t   == calculate_poll_timeout(cfg, svcs, now).timeout
      due == svcs[i].time + limit
  IN  /\ t # {}
      /\ \A x \in t : now + x <= (IF due < now THEN now ELSE due)

\* the stop timeout of a service whose child ignores SIGTERM wakes the loop
StopDeadline ==
  pc = "poll" =>
    \A i \in Idx :
      (svcs[i].state = "Stopping" /\ has_pid(svcs[i])
         /\ cfg[i].max_stop_time_millis # NoLimit) =>
        WokenAfter(i, cfg[i].max_stop_time_millis)

\* C7: a service whose child ignores SIGTERM is woken max_stop_time_ms after
\* it entered Stopping, to enter ForceDown, and one whose child survives
\* SIGKILL is woken 1000 ms after it entered ForceDown, to enter CannotStop:
\* no other event is needed.
C7_StopEscalation ==
  /\ StopDeadline
  /\ pc = "poll" =>
       \A i \in Idx :
         (svcs[i].state = "ForceDown" /\ svcs[i].pid # NoPid
            /\ procs[svcs[i].pid].alive
            /\ {SIGTERM, SIGKILL} \subseteq procs[svcs[i].pid].sigs) =>
           WokenAfter(i, FORCED_DOWN_TIME_MILLIS)

\* the child of a service that is being stopped ignored SIGTERM and was sent
\* SIGKILL, and the server waits in poll()
ForceDownWitness ==
  \E i \in Idx :
    /\ pc = "poll"
    /\ svcs[i].state = "ForceDown"
    /\ svcs[i].target = "Down"
    /\ svcs[i].pid # NoPid
    /\ procs[svcs[i].pid].alive
    /\ {SIGTERM, SIGKILL} \subseteq procs[svcs[i].pid].sigs
    /\ calculate_poll_timeout(cfg, svcs, now).timeout = {}

----------------------------------------------------------------------------
(* Target propagation *)

\* the server has just answered Okay to the SetTarget request req
Answered(req) == ipc.req = req /\ ipc.resp = "Okay"

\* C8: after SetTargetUp(S) or SetTargetOnce(S) returned Okay every service
\* in S's target_up_propagate_up has target Up, every service in S's
\* target_up_propagate_down has target Down, and each of them is dirty.
C8_UpPropagation ==
  (Answered("SetTargetUp") \/ Answered("SetTargetOnce")) =>
    /\ \A j \in cfg[ipc.svc].target_up_propagate_up :
         svcs[j].target = "Up" /\ svcs[j].dirty
    /\ \A j \in cfg[ipc.svc].target_up_propagate_down :
         svcs[j].target = "Down" /\ svcs[j].dirty

\* C8 amended: the members of S's own groups have the commanded target
\* instead, Once after SetTargetOnce(S)
C8_UpPropagationAmended ==
  \A t \in Upward :
    Answered(SetTargetTag(t)) =>
      /\ \A j \in cfg[ipc.svc].target_up_propagate_up \ cfg[ipc.svc].groups :
           svcs[j].target = "Up" /\ svcs[j].dirty
      /\ \A j \in cfg[ipc.svc].target_up_propagate_down \ cfg[ipc.svc].groups :
           svcs[j].target = "Down" /\ svcs[j].dirty
      /\ \A j \in cfg[ipc.svc].groups : svcs[j].target = t /\ svcs[j].dirty

\* SetTargetOnce(S) has brought a dependency of S up from target Down and a
\* conflicting service down from target Up
C8_Witness ==
  /\ Answered("SetTargetOnce")
  /\ \E j \in cfg[ipc.svc].target_up_propagate_up \ cfg[ipc.svc].groups :
       cfg[j].init_target = "Down" /\ svcs[j].target = "Up"
  /\ \E j \in cfg[ipc.svc].target_up_propagate_down :
       cfg[j].init_target = "Up" /\ svcs[j].target = "Down"

\* C9: after SetTargetDown(S) returned Okay, S and every service in S's
\* target_down_propagate_down have target Down and are dirty, and no service
\* outside S, that list and S's groups has had its target changed.
C9_DownPropagation ==
  [][(ipc'.req = "SetTargetDown" /\ ipc'.resp = "Okay") =>
       LET S    == ipc'.svc
           down == cfg[S].target_down_propagate_down
       IN  /\ \A j \in {S} \cup down : svcs'[j].target = "Down" /\ svcs'[j].dirty
           /\ \A j \in Idx \ ({S} \cup down \cup cfg[S].groups) :
                svcs'[j].target = svcs[j].target]_vars

\* SetTargetDown(S) has brought a dependent of S down and has left a service
\* that S depends on with target Up
C9_Witness ==
  /\ Answered("SetTargetDown")
  /\ \E j \in cfg[ipc.svc].target_down_propagate_down :
       svcs[j].state = "Up" /\ svcs[j].target = "Down"
  /\ \E j \in cfg[ipc.svc].needs : svcs[j].state = "Up" /\ svcs[j].target = "Up"

\* the target of a dependent after SetTargetRestart
RestartRule(t) ==
  CASE t = "Up"   -> "Restart"
    [] t = "Once" -> "Down"
    [] OTHER      -> t

RestartUpWitness ==
  /\ Answered("SetTargetRestart")
  /\ \E d \in cfg[ipc.svc].target_down_propagate_down :
       /\ cfg[d].init_target = "Up"
       /\ svcs[d].state = "Up"
       /\ svcs[d].target = "Restart"

\* C11: after SetTargetRestart(S) returned Okay every service in S's
\* target_up_propagate_up has target Up and every service in S's
\* target_up_propagate_down has target Down.
C11_RestartPropagation ==
  Answered("SetTargetRestart") =>
    /\ \A j \in cfg[ipc.svc].target_up_propagate_up : svcs[j].target = "Up"
    /\ \A j \in cfg[ipc.svc].target_up_propagate_down : svcs[j].target = "Down"

\* C11 amended: a dependency is set to Up only if its target is Down when
\* its loop reaches it, and keeps Up, Restart or Once otherwise; the members
\* of S's own groups end with Restart.
C11_RestartPropagationAmended ==
  [][(ipc'.req = "SetTargetRestart" /\ ipc'.resp = "Okay") =>
       LET cf == cfg[ipc'.svc]
           reached(j) == IF j \in cf.target_down_propagate_down
                         THEN RestartRule(svcs[j].target) ELSE svcs[j].target
       IN  /\ \A j \in cf.target_up_propagate_up
                       \ (cf.groups \cup cf.target_up_propagate_down) :
                svcs'[j].target = IF reached(j) = "Down" THEN "Up" ELSE reached(j)
           /\ \A j \in cf.target_up_propagate_down \ cf.groups :
                svcs'[j].target = "Down"
           /\ \A j \in cf.groups : svcs'[j].target = "Restart"]_vars

\* SetTargetRestart(S) has brought a dependency of S up from target Down and
\* a conflicting service down from target Up
C11_Witness ==
  /\ Answered("SetTargetRestart")
  /\ \E j \in cfg[ipc.svc].target_up_propagate_up \ cfg[ipc.svc].groups :
       cfg[j].init_target = "Down" /\ svcs[j].target = "Up"
  /\ \E j \in cfg[ipc.svc].target_up_propagate_down :
       cfg[j].init_target = "Up" /\ svcs[j].target = "Down"

\* C12: after SetTarget(S, T) returned Okay, for any T, every member of S's
\* own groups has target T and is dirty, whatever the other loops of the
\* command wrote to it.
C12_GroupsVerbatim ==
  \A t \in Targets :
    Answered(SetTargetTag(t)) =>
      \A j \in cfg[ipc.svc].groups : svcs[j].target = t /\ svcs[j].dirty

\* SetTargetOnce(S) has left a group member of S, which the loop over the
\* dependencies set to Up, with target Once
C12_Witness ==
  /\ Answered("SetTargetOnce")
  /\ \E j \in cfg[ipc.svc].groups \cap cfg[ipc.svc].target_up_propagate_up :
       cfg[j].init_target = "Down" /\ svcs[j].target = "Once"

----------------------------------------------------------------------------
(* Leaving Failed *)

\* service i waits for something outside the server, or has failed anew
HeldUp(i) ==
  \/ svcs[i].state \in {"Retrying", "Failed"}
  \/ svcs[i].state # "Up" /\ has_pid(svcs[i])
  \/ svcs[i].state = "WaitingToStart" /\ ~start_dep_satisfied(cfg[i], svcs)

----------------------------------------------------------------------------
(* Conflicts *)

\* the steps of a conflict: SetTargetUp(y) sets the target of every service
\* y conflicts with to Down and marks it dirty; such a service, when it is
\* Up, leaves Up for WaitingToStop only; and y leaves WaitingToStart for
\* SettingUp only while each of them is Down or Failed
ConflictSteps ==
  /\ (ipc'.req = "SetTargetUp" /\ ipc'.resp = "Okay") =>
       \A x \in cfg[ipc'.svc].conflicts :
         svcs'[x].target = "Down" /\ svcs'[x].dirty
  /\ \A x \in Idx :
       (svcs[x].state = "Up" /\ svcs[x].target = "Down"
          /\ svcs'[x].state # "Up") => svcs'[x].state = "WaitingToStop"
  /\ \A y \in Idx :
       (svcs[y].state = "WaitingToStart" /\ svcs'[y].state = "SettingUp") =>
         \A x \in cfg[y].conflicts : svcs[x].state \in {"Down", "Failed"}

\* no service is Up together with a service it conflicts with
NeverBothUp ==
  \A y \in Idx : \A x \in cfg[y].conflicts :
    ~(svcs[x].state = "Up" /\ svcs[y].state = "Up")

\* C14: with y conflicts x, SetTargetUp(y) sends x from Up to WaitingToStop
\* and on to Down, y starts only once x is Down, and x and y are never both
\* Up.
C14_Conflict == [][ConflictSteps /\ NeverBothUp']_vars

\* C14 amended: the conflict is looked at only when y starts, so x and y are
\* not both Up through a start of y; a later start of x is not held back
C14_ConflictAmended == [][ConflictSteps]_vars

\* y is Up after SetTargetUp(y), and x, which was running, is Down with
\* target Down
C14_Witness ==
  \E y \in Idx : \E x \in cfg[y].conflicts :
    /\ cfg[y].init_target = "Down" /\ svcs[y].state = "Up"
    /\ cfg[x].init_target = "Up" /\ cfg[x].run # "None"
    /\ svcs[x].state = "Down" /\ svcs[x].target = "Down"
    /\ hist[x] = NoHist /\ svcs[x].exit_code # NoCode
    /\ commands = 1 /\ ~shutting_down

\* x was started beside y, which conflicts with it and is Up
BothUpWitness ==
  \E y \in Idx : \E x \in cfg[y].conflicts :
    svcs[x].state = "Up" /\ svcs[y].state = "Up" /\ svcs[x].pid # NoPid

----------------------------------------------------------------------------
(* Shutdown *)

ExitZeroWitness ==
  /\ pc = "exited"
  /\ exit_status = 0
  /\ \E i \in Idx : svcs[i].exit_code # NoCode

\* PID 1 was sent the signal and goes on supervising
Pid1SignalWitness ==
  /\ is_pid1
  /\ commands = 1
  /\ pc = "poll"
  /\ \E i \in Idx : svcs[i].state = "Up" /\ svcs[i].pid # NoPid

----------------------------------------------------------------------------
(* Session save and resume *)

\* C16: for service records whose values are within the declared ranges,
\* saving the session and loading it into an identical service table gives
\* records equal to the saved ones in every field (state, target, pid,
\* supervisor_pid, stdin_pipe, exit_code, settle_pipe, attempt_count, time,
\* ready), except dirty, which is true after the load
C16_SessionRoundTrip ==
  [][(pc = "exec" /\ pc' = "scan" /\ cfg' = cfg) =>
       /\ session = save(svcs, cfg)
       /\ DOMAIN svcs' = DOMAIN svcs
       /\ \A i \in DOMAIN svcs : svcs'[i] = [svcs[i] EXCEPT !.dirty = TRUE]]_vars

\* the same image resumed a session in which a log sink had every optional
\* field set, a time that is no whole second, and was not dirty when saved
C16_Witness ==
  /\ pc = "scan"
  /\ commands = 1
  /\ session # <<>>
  /\ Len(cfg) = 3
  /\ cfg[1].name = <<108>> /\ cfg[2].name = <<97>> /\ cfg[3].name = <<98>>
  /\ \E i \in Idx :
       /\ svcs[i].state = "Stopping" /\ svcs[i].target = "Restart"
       /\ svcs[i].pid # NoPid /\ svcs[i].supervisor_pid # NoPid
       /\ svcs[i].stdin_pipe # NoPipe /\ svcs[i].settle_pipe # NoPipe
       /\ svcs[i].exit_code # NoCode /\ svcs[i].attempt_count = 2
       /\ svcs[i].time = 2500 /\ svcs[i].ready
  /\ \A i \in Idx : svcs[i].dirty

\* service i was Up with every process of its own alive when the session
\* was saved
WasUpAndLive(i) ==
  /\ saved.svcs[i].state = "Up"
  /\ has_pid(saved.svcs[i])
  /\ \A p \in {saved.svcs[i].pid, saved.svcs[i].supervisor_pid} \ {NoPid} :
       saved.procs[p].alive

\* C17: a re-exec on SIGHUP does not disturb a running service: a service
\* that was Up with a live child is Up when the new image has resumed and
\* finished its first dirty scan, with the same pid, attempt_count and time,
\* and its child was sent no signal
C17_ReexecFrame ==
  [][(pc = "scan" /\ pc' # "scan" /\ saved # NoSaved) =>
       \A i \in Idx : WasUpAndLive(i) =>
         /\ svcs[i].state = "Up"
         /\ svcs[i].pid = saved.svcs[i].pid
         /\ svcs[i].supervisor_pid = saved.svcs[i].supervisor_pid
         /\ svcs[i].attempt_count = saved.svcs[i].attempt_count
         /\ svcs[i].time = saved.svcs[i].time
         /\ \A p \in {svcs[i].pid, svcs[i].supervisor_pid} \ {NoPid} :
              procs[p] = saved.procs[p]]_vars

\* what the first scan makes of the attempt_count of a service that stays Up:
\* it is forgotten once the service has been Up for UP_TIME_MILLIS
ScannedCount(svc, t) ==
  IF svc.attempt_count > 0 /\ up_time_elapsed(svc, t) THEN 0 ELSE svc.attempt_count

\* C17 as amended: the service is still Up with the same pid and time and no
\* signal sent, and with the same attempt_count unless the scan of the new
\* image finds it Up for UP_TIME_MILLIS and forgets its attempts
C17_ReexecFrameAmended ==
  [][(pc = "scan" /\ pc' # "scan" /\ saved # NoSaved) =>
       \A i \in Idx : WasUpAndLive(i) =>
         /\ svcs[i].state = "Up"
         /\ svcs[i].pid = saved.svcs[i].pid
         /\ svcs[i].supervisor_pid = saved.svcs[i].supervisor_pid
         /\ svcs[i].attempt_count = ScannedCount(saved.svcs[i], now)
         /\ svcs[i].time = saved.svcs[i].time
         /\ svcs[i].target = saved.svcs[i].target
         /\ \A p \in {svcs[i].pid, svcs[i].supervisor_pid} \ {NoPid} :
              procs[p] = saved.procs[p]]_vars

\* the new image has finished its first scan: a service that had made one
\* attempt is Up as it was when the session was saved
C17_Witness ==
  /\ pc = "scan"
  /\ saved # NoSaved
  /\ find_dirty_index(svcs) = {}
  /\ \E i \in Idx :
       /\ WasUpAndLive(i)
       /\ saved.svcs[i].attempt_count = 1
       /\ svcs[i].state = "Up" /\ svcs[i].attempt_count = 1
       /\ svcs[i].time > 0
       /\ procs[svcs[i].pid].alive /\ procs[svcs[i].pid].sigs = {}

\* the services of the saved session that the table c does not name
Unrecognized(c) ==
  {i \in DOMAIN cfg : \A j \in DOMAIN c : c[j].name # cfg[i].name}

\* the pids and the pipe fds of a set of saved records
PidsOf(set) == UNION {{svcs[i].pid, svcs[i].supervisor_pid} : i \in set} \ {NoPid}
FdsOf(set) ==
  UNION {pipe_fds(svcs[i].stdin_pipe) \cup pipe_fds(svcs[i].settle_pipe) : i \in set}

\* C18: loading a saved record whose name is not in the service table sends
\* SIGTERM to its pid and its supervisor_pid if present, closes the fds of
\* its stdin_pipe and settle_pipe, and changes no record of the table; the
\* records that follow it in the session are loaded as saved
C18_UnrecognizedService ==
  [][(pc = "exec" /\ pc' = "scan") =>
       LET gone == Unrecognized(cfg')
           kept == DOMAIN cfg \ gone
           fresh == initialize(cfg', now)
       IN  /\ \A p \in Pids :
                procs'[p] =
                  IF p \in PidsOf(gone) /\ procs[p].alive
                  THEN [procs[p] EXCEPT !.sigs = @ \cup {SIGTERM}]
                  ELSE procs[p]
           /\ fds' \cap FdsOf(gone) = {}
           /\ \A i \in kept : pipe_fds(svcs[i].settle_pipe) \subseteq fds'
           /\ DOMAIN svcs' = DOMAIN cfg'
           /\ \A j \in DOMAIN cfg' :
                IF \E i \in kept : cfg[i].name = cfg'[j].name
                THEN LET i == CHOOSE i \in kept : cfg[i].name = cfg'[j].name
                     IN  /\ svcs'[j] =
                              [svcs[i] EXCEPT
                                 !.dirty = TRUE,
                                 !.stdin_pipe = IF cfg'[j].is_logger THEN @ ELSE NoPipe]
                         /\ cfg'[j].is_logger => pipe_fds(svcs[i].stdin_pipe) \subseteq fds'
                ELSE svcs'[j] = fresh[j]]_vars

\* the image without l resumed a session whose first record is that of l: its
\* child was sent SIGTERM, its pipes are closed, and the records of a and b,
\* which follow it, are in the table
C18_Witness ==
  /\ pc = "scan"
  /\ saved # NoSaved
  /\ Len(cfg) = 2 /\ cfg[1].name = <<97>> /\ cfg[2].name = <<98>>
  /\ saved.svcs[1].stdin_pipe # NoPipe /\ saved.svcs[1].settle_pipe # NoPipe
  /\ saved.svcs[1].pid \in Pids
  /\ SIGTERM \in procs[saved.svcs[1].pid].sigs
  /\ fds = {}
  /\ \A j \in 1..2 : svcs[j].state = "Up" /\ svcs[j].pid = saved.svcs[j + 1].pid
                       /\ procs[svcs[j].pid].sigs = {}

----------------------------------------------------------------------------
(* Requests and responses *)

\* C19: the server writes one response for each request it reads, and
\* writes it before it reads the next request, so that the k-th response
\* answers the k-th request read, also across a re-exec on an Exec request
\* or on SIGHUP; it writes no response that no request asked for
C19_OneResponsePerRequest ==
  /\ Len(served.writes) <= Len(served.reads)
  /\ Len(served.reads) <= Len(served.writes) + 1
  /\ \A k \in DOMAIN served.writes :
       /\ k \in DOMAIN served.reads
       /\ served.writes[k].to = served.reads[k].from

\* C20: peers that connect and drain, lock, send, receive and unlock are
\* serialised by the lock: at most one request is outstanding, a peer that
\* has sent a request receives the response to its own request, and no peer,
\* a draining one included, consumes a response that is for another peer
C20_PeersSerialised ==
  /\ Cardinality({q \in Peers : peers[q].pc = "sent"}) <= 1
  /\ \A q \in Peers : \A r \in peers[q].got : r.to = q
  /\ \A q \in Peers : \A r \in peers[q].drained : r.to \notin Peers \ {q}

\* C21: for every byte sequence a peer writes to the request pipe that is
\* not a request naming a service of the table (malformed, truncated, of an
\* unknown tag, oversize, or well-formed and naming an unknown service or an
\* index out of range), the server replies InvalidRequest or ServiceNotFound
\* in the step in which it reads the bytes, leaves every service record as
\* it is, and goes on with its loop
C21_PeerFault ==
  [][\A q \in Peers :
       ( /\ peers[q].pc = "sent"
         /\ pipes.req = peers[q].wrote
         /\ Len(served'.reads) = Len(served.reads) + 1
         /\ Fault(cfg, svcs, peers[q].wrote) )
       => /\ svcs' = svcs
          /\ Len(served'.writes) = Len(served.writes) + 1
          /\ served'.writes[Len(served'.writes)].val
               \in {<<ResponseHeader("InvalidRequest")>>,
                    <<ResponseHeader("ServiceNotFound")>>}
          /\ pc' = "scan"]_vars

\* C22: the serialization of a Request or Response value fails or produces
\* at most 4096 bytes (PIPE_BUF): no message of more than 4096 bytes is
\* written to the request or the response pipe, and nothing is written when
\* the serialization failed
C22_MessageSize ==
  /\ Len(wire.written) <= PIPE_BUF
  /\ wire.aborted => wire.written = <<>>
  /\ wire.kind \in {"request", "response"} /\ ~wire.aborted /\ wire.written # <<>> =>
       wire.written[1] = IF wire.kind = "request" THEN RequestHeader(wire.value.tag)
                         ELSE ResponseHeader(wire.value.tag)

\* a request that fills the buffer to its last byte has been written, and
\* the name of it is longer than a service name may be
C22_Witness ==
  /\ wire.kind = "request"
  /\ Len(wire.written) = PIPE_BUF
  /\ Len(wire.value.name) > MSG_SVC_NAME_SIZE

\* a response that does not fit has aborted the server
OverflowWitness ==
  /\ wire.kind = "response"
  /\ wire.aborted
  /\ Len(wire.value.name) = MSG_SIZE - 2

\* C23: a settle command on the service f returns only after a State
\* response that names a stable state, which is the state f was in when
\* the server read the query; it then exits with 0 for Up or Down and with 1
\* for Failed or CannotStop; and it does return once f is stable: while the
\* command is blocked in poll() and the server waits for events with f in a
\* stable state, the settle pipe the command polls is readable.
C23_SettleReturns ==
  /\ []( ( /\ ipc.req = "QueryByNameState" /\ ipc.resp = "State"
           /\ pipes.resp # <<>> )
         => Response_deserialize(pipes.resp[Len(pipes.resp)].val).state
              = svcs[1].state )
  /\ []( ( /\ peers[1].pc = "settle_poll"
           /\ pc = "poll"
           /\ stable(svcs[1].state) )
         => peers[1].settle_fd \in pipes.settle )
  /\ [][( /\ peers[1].pc \in {"settle_query", "settle_requery"}
          /\ peers'[1].pc = "done"
          /\ Response_deserialize(Head(pipes.resp).val).tag = "State" )
        => LET state == Response_deserialize(Head(pipes.resp).val).state
           IN  /\ stable(state)
               /\ peers'[1].status = IF bad(state) THEN 1 ELSE 0]_vars

\* the parts of C23 about a command that returns
SettleExit ==
  [][( /\ peers[1].pc \in {"settle_query", "settle_requery"}
       /\ peers'[1].pc = "done"
       /\ Response_deserialize(Head(pipes.resp).val).tag = "State" )
     => LET state == Response_deserialize(Head(pipes.resp).val).state
        IN  /\ stable(state)
            /\ peers'[1].status = IF bad(state) THEN 1 ELSE 0]_vars

\* the command is blocked for a service that is Up, and nothing will wake it
SettleStuck ==
  /\ peers[1].pc = "settle_poll"
  /\ pc = "poll"
  /\ svcs[1].state = "Up"
  /\ peers[1].settle_fd \notin pipes.settle

\* the command waited and returned 0 for Up, and 1 for Failed
SettledUp == peers[1].pc = "done" /\ peers[1].status = 0 /\ peers[1].settle_fd # NoPid /\ svcs[1].state = "Up"

SettledFailed == peers[1].pc = "done" /\ peers[1].status = 1 /\ peers[1].settle_fd # NoPid /\ svcs[1].state = "Failed"

\* C24: for the service e with stop_all_children whose payload forks a
\* process that ignores SIGTERM: the entry into Stopping sends SIGTERM to
\* the payload; the entry into ForceDown sends SIGTERM to the supervisor and
\* SIGKILL to the payload; a supervisor that reaped its payload terminates,
\* its kill_all_children having killed and reaped every descendant; and when
\* e is Down, no process of e is alive.
C24_StopAllChildren ==
  /\ [][( /\ svcs[1].state # "Stopping" /\ svcs'[1].state = "Stopping"
          /\ svcs[1].pid # NoPid /\ procs[svcs[1].pid].alive )
        => SIGTERM \in procs'[svcs[1].pid].sigs]_vars
  /\ [][( svcs[1].state # "ForceDown" /\ svcs'[1].state = "ForceDown" )
        => /\ ( svcs[1].supervisor_pid # NoPid /\ procs[svcs[1].supervisor_pid].alive )
                => SIGTERM \in procs'[svcs[1].supervisor_pid].sigs
           /\ ( svcs[1].pid # NoPid /\ procs[svcs[1].pid].alive )
                => SIGKILL \in procs'[svcs[1].pid].sigs]_vars
  /\ [](\A p \in Pids : procs[p].stage # "kill_all_children")
  /\ [](( svcs[1].state = "Down" /\ pc = "poll" )
        => \A p \in Pids : procs[p].svc = 1 => ~procs[p].alive)

\* the supervisor of e never leaves kill_all_children: the process its
\* payload left behind is alive and e cannot be stopped
DescendantLeft ==
  /\ svcs[1].state = "ForceDown" /\ svcs[1].target = "Down"
  /\ \E p \in Pids : procs[p].stage = "kill_all_children" /\ procs[p].alive
  /\ \E p \in Pids : procs[p].kind = "descendant" /\ procs[p].alive

\* the parts of C24 that do not depend on kill_all_children ending
StopSignals ==
  /\ [][( /\ svcs[1].state # "Stopping" /\ svcs'[1].state = "Stopping"
          /\ svcs[1].pid # NoPid /\ procs[svcs[1].pid].alive )
        => SIGTERM \in procs'[svcs[1].pid].sigs]_vars
  /\ [][( svcs[1].state # "ForceDown" /\ svcs'[1].state = "ForceDown" )
        => /\ ( svcs[1].supervisor_pid # NoPid /\ procs[svcs[1].supervisor_pid].alive )
                => SIGTERM \in procs'[svcs[1].supervisor_pid].sigs
           /\ ( svcs[1].pid # NoPid /\ procs[svcs[1].pid].alive )
                => SIGKILL \in procs'[svcs[1].pid].sigs]_vars

\* when e is Down, no process of e is alive
NoneLeftAlive ==
  ( svcs[1].state = "Down" /\ pc = "poll" )
    => \A p \in Pids : procs[p].svc = 1 => ~procs[p].alive

\* C25: a service brought up with target Once is started at most once: as
\* long as no operator command was sent and its target is Once, it enters
\* Starting only if it has not been started since it was last Down.
C25_OnceNoRetry ==
  [][\A i \in Idx :
       ( /\ commands' = 0
         /\ svcs[i].target = "Once"
         /\ svcs[i].state # "Starting"
         /\ svcs'[i].state = "Starting" )
       => hist[i].starts = 0]_vars

\* the program of o was spawned a second time under target Once
OnceRetried ==
  /\ commands = 0
  /\ svcs[1].target = "Once" /\ svcs[1].state = "Starting"
  /\ svcs[1].pid # NoPid
  /\ hist[1].starts = 2

\* C26: set_target(S, T) makes at most as many target writes as S itself
\* and the propagation arrays of S count entries, and it writes the target
\* of no service index twice.
C26_PropagationWrites ==
  [][\A i \in Idx : \A t \in Targets :
       SetTargetStep(i, t) =>
         LET w == set_target_writes(cfg, svcs, i, t)
         IN  /\ Len(w) <= 1 + arrays_len(cfg[i])
             /\ \A a, b \in DOMAIN w : a # b => w[a].index # w[b].index]_vars

\* C26, amended: set_target(S, T) makes at most two writes to the target of
\* S and one for each entry of the propagation arrays of S; every loop
\* writes an index at most once, and only S and the indexes that are in more
\* than one array are written more than once; the targets of the table
\* afterwards are those of the last write to each index.
C26_PropagationWritesAmended ==
  [][\A i \in Idx : \A t \in Targets :
       SetTargetStep(i, t) =>
         LET w == set_target_writes(cfg, svcs, i, t)
         IN  /\ Len(w) <= 2 + arrays_len(cfg[i])
             /\ \A a, b \in DOMAIN w :
                  a # b /\ w[a].index = w[b].index =>
                    /\ w[a].pass # w[b].pass
                    /\ \/ w[a].index = i
                       \/ w[a].index \in cfg[i].groups
                       \/ w[a].index \in cfg[i].target_up_propagate_up
                                           \cap cfg[i].target_up_propagate_down
                       \/ w[a].index \in cfg[i].target_down_propagate_down
                                           \cap (cfg[i].target_up_propagate_up
                                                   \cup cfg[i].target_up_propagate_down)
             /\ \A k \in Idx : svcs'[k].target = written(svcs, w)[k]]_vars

\* Once was set for a service whose group members are in its
\* target_up_propagate_up too: they were written Up and then Once
C26_Witness ==
  /\ ipc.req = "SetTargetOnce" /\ ipc.resp = "Okay" /\ ipc.svc \in Idx
  /\ \E k \in cfg[ipc.svc].groups \cap cfg[ipc.svc].target_up_propagate_up :
       svcs[k].target = "Once"


----------------------------------------------------------------------------
(* abort (err.rs)                                                          *)

\* where the server is once abort() was called as PID 1: about to print the
\* diagnostic, or asleep after it
AbortPcs == {"aborted", "abort_sleep"}

\* main: the time cannot be read, the lock file is held or cannot be
\* opened, the signals cannot be blocked or the subreaper flag cannot be set
\* (or_abort, or_fs_abort, abort_lock_held_by_pid, abort_acquire_lock), so
\* abort() is called before the loop is entered
setup_aborts ==
  /\ Started(is_pid1)
  /\ pc' = abort_pc(is_pid1)
  /\ exit_status' = abort_status(is_pid1, exit_status)
  /\ UNCHANGED <<cfg, svcs, now, shutting_down, procs, ipc, commands, hist,
                 is_pid1, session, fds, saved, pipes, peers, served, images,
                 wire>>

\* abort, the body of its loop up to the sleep: the diagnostic is printed
abort_eprintln ==
  /\ pc = "aborted"
  /\ pc' = "abort_sleep"
  /\ UNCHANGED <<cfg, svcs, now, shutting_down, exit_status, procs, ipc,
                 commands, hist, is_pid1, session, fds, saved, pipes, peers,
                 served, images, wire>>

\* abort, the rest of the body: sleep(60) returns and the loop starts over;
\* the call of reexec_self that follows the sleep is commented out
abort_sleep ==
  /\ pc = "abort_sleep"
  /\ pc' = "aborted"
  /\ UNCHANGED <<cfg, svcs, now, shutting_down, exit_status, procs, ipc,
                 commands, hist, is_pid1, session, fds, saved, pipes, peers,
                 served, images, wire>>

NextAbort ==
  \/ Transition
  \/ ScanDone
  \/ HandleShutdownSignal
  \/ \E i \in Idx : \E t \in Targets : HandleSetTarget(i, t)
  \/ setup_aborts
  \/ abort_eprintln
  \/ abort_sleep

InitAbort ==
  /\ Init \/ InitPid1
  /\ cfg = WireTable

SpecAbort == InitAbort /\ [][NextAbort]_vars

\* C27: when abort is called, a server that is not PID 1 exits with status
\* 1; a server that is PID 1 never exits: it prints the diagnostic, sleeps
\* 60 seconds, attempts to re-exec /proc/self/exe (which leaves the loop for
\* "exec" when it succeeds and returns into the loop when it fails), and
\* repeats.
C27_AbortLoop ==
  /\ [][(pc \in AbortPcs) => (pc' \in AbortPcs \cup {"abort_reexec", "exec"})]_vars
  /\ [][(pc = "aborted") => (pc' = "abort_sleep")]_vars
  /\ [][(pc = "abort_sleep") => (pc' \in {"abort_reexec", "exec"})]_vars
  /\ [][(Started(is_pid1) /\ ~is_pid1 /\ pc' = "exited") => (exit_status' = 1)]_vars
  /\ []((pc \in AbortPcs) => (is_pid1 /\ exit_status = NoCode))

\* what abort does do: PID 1 stays in the loop of diagnostic and sleep, and
\* any other process exits with 1
AbortStays ==
  /\ [][(pc \in AbortPcs) => (pc' \in AbortPcs)]_vars
  /\ [][(Started(is_pid1) /\ ~is_pid1 /\ pc' = "exited") => (exit_status' = 1)]_vars
  /\ []((pc \in AbortPcs) => (is_pid1 /\ exit_status = NoCode))

\* PID 1 has printed the diagnostic and sleeps
AbortAsleep == is_pid1 /\ pc = "abort_sleep"

\* a server that is not PID 1 has exited from abort
AbortExited == ~is_pid1 /\ pc = "exited" /\ exit_status = 1


----------------------------------------------------------------------------
(* pid and supervisor_pid (next_state.rs, handle_request.rs)               *)

\* Request::ServiceStarting(pid, name) or Request::DaemonReady(pid, name)
\* from any process that can write to the request pipe: it names any service
\* of the table and any pid
HandlePidName(tag, pid, i) ==
  /\ RequestReady
  /\ commands < MaxCommands
  /\ commands' = commands + 1
  /\ \E d \in EventDelays : now' = now + d
  /\ LET done == handle_request(cfg, svcs, Request(tag, 0, cfg[i].name, pid), now,
                                procs, NoPipe)
     IN  /\ svcs' = done.svcs
         /\ ipc' = [req |-> tag, svc |-> i, resp |-> done.response.tag,
                    seen |-> svcs[i].state]
  /\ pc' = "scan"
  /\ UNCHANGED <<cfg, images, wire, is_pid1, session, fds, saved, pipes, peers,
                 served, shutting_down, exit_status, procs, hist>>

NextPidName ==
  \/ NextReexec
  \/ \E tag \in PidNameTags : \E pid \in Pids : \E i \in Idx : HandlePidName(tag, pid, i)

\* the server with its children, SIGHUP and the pid requests
SpecPidName == Init /\ [][NextPidName]_vars

\* the states that expect no live child
Childless == {"Down", "WaitingToStart", "Retrying", "Failed"}

\* C28: whenever the main loop blocks in poll, no service in Down,
\* WaitingToStart, Retrying or Failed has a pid or a supervisor_pid, whatever
\* spawns, reaps, ServiceStarting and DaemonReady requests and session loads
\* came before.
C28_PidOnlyWithChild ==
  (pc = "poll") => \A i \in Idx : (svcs[i].state \in Childless) => ~has_pid(svcs[i])

\* a pid request has named a service that is Down and has no program of
\* its own and whose target was Down all along; the service has left Down for
\* it, and the loop is in poll again
PidNamedChildless ==
  /\ pc = "poll"
  /\ \E i \in Idx :
       /\ cfg[i].run = "None" /\ cfg[i].setup = "None" /\ cfg[i].cleanup = "None"
       /\ cfg[i].init_target = "Down" /\ svcs[i].target = "Down"
       /\ has_pid(svcs[i])
       /\ svcs[i].state \in {"ForceDown", "CannotStop"}

\* the request has just been handled: the service it names expects no child
\* and has a pid
PidNamed ==
  /\ ipc.req \in PidNameTags /\ ipc.resp = "Okay"
  /\ svcs[ipc.svc].state \in Childless /\ has_pid(svcs[ipc.svc])

\* a session was loaded and the loop is in poll with a service that has a pid
PidLoaded ==
  /\ pc = "poll"
  /\ served.writes # <<>>
  /\ \E i \in Idx : has_pid(svcs[i])


----------------------------------------------------------------------------
(* The attempt counter (next_state.rs) *)

\* the steps of the retry path
RetryPath ==
  {<<"Retrying", "WaitingToStart">>, <<"WaitingToStart", "SettingUp">>,
   <<"SettingUp", "Starting">>}

\* C29: attempt_count is reset to 0 only where a service that has stayed Up
\* for UP_TIME_MILLIS is found stable, or where the service enters Down; every
\* other step leaves it unchanged or adds one to it, and the steps Retrying
\* to WaitingToStart, WaitingToStart to SettingUp and SettingUp to Starting
\* leave it unchanged.
C29_AttemptCountReset ==
  [][\A i \in Idx :
       LET old == svcs[i].attempt_count
           new == svcs'[i].attempt_count
       IN  /\ \/ new = old
              \/ new = old + 1
              \/ /\ new = 0
                 /\ svcs'[i].state = "Down"
              \/ /\ new = 0
                 /\ svcs[i].state = "Up" /\ svcs'[i].state = "Up"
                 /\ millis_since(now, svcs[i].time) >= UP_TIME_MILLIS
           /\ <<svcs[i].state, svcs'[i].state>> \in RetryPath => new = old]_vars

\* a service that failed before is Starting again, its failures counted
RetriedWithCount ==
  \E i \in Idx : svcs[i].state = "Starting" /\ svcs[i].attempt_count > 0

\* a service that failed and was retried is Up beyond the window, its
\* failures forgotten
StableForgotten ==
  \E i \in Idx :
    /\ svcs[i].state = "Up" /\ svcs[i].attempt_count = 0 /\ ~svcs[i].dirty
    /\ hist[i].starts > 1 /\ hist[i].other
    /\ millis_since(now, svcs[i].time) >= UP_TIME_MILLIS


----------------------------------------------------------------------------
(* The dirty mark (next_state.rs, handle_signal.rs, handle_request.rs)     *)

\* what of a service record a transition is computed from, other than the
\* times
Evaluated(svc) ==
  <<svc.state, svc.target, svc.pid, svc.supervisor_pid, svc.exit_code, svc.ready>>

\* C30: every step that changes the state, the target, the pid, the
\* supervisor_pid, the exit_code or the ready flag of a service leaves it
\* dirty, and the dirty mark is cleared only by a transition pass over the
\* service that changes none of them; so whenever the main loop blocks in
\* poll no service is dirty and no service has a transition that the table
\* as it stands enables (a transition that only the passing of time since
\* the service entered its state enables is what the poll timeout is for).
C30_DirtyUntilEvaluated ==
  /\ [][\A i \in Idx :
          /\ Evaluated(svcs'[i]) # Evaluated(svcs[i]) => svcs'[i].dirty
          /\ (svcs[i].dirty /\ ~svcs'[i].dirty) =>
               /\ pc = "scan" /\ pc' = "scan"
               /\ NextState_new(cfg, svcs, i, now) \in {"None", "UpStable"}]_vars
  /\ [](pc = "poll" =>
          \A i \in Idx :
            ~svcs[i].dirty /\ NextState_new(cfg, svcs, i, svcs[i].time) = "None")

\* the loop is in poll after a scan that moved a service whose change
\* another service waited for: a service that needs another one is Up
DirtySettled ==
  /\ pc = "poll"
  /\ \E i \in Idx : cfg[i].needs # {} /\ svcs[i].state = "Up"


----------------------------------------------------------------------------
(* Transient targets (next_state.rs, apply_down and apply_failed_or_retry) *)

Transient == {"Restart", "Once"}

\* C31: every entry into Down in a transition pass rewrites the target
\* Restart to Up and Once to Down, and so does every entry into Failed; so
\* whenever the main loop blocks in poll every service that is Down has the
\* target Down and no service that is Down or Failed has the target Restart
\* or Once.
C31_TransientTargets ==
  /\ [][\A i \in Idx :
          (pc = "scan" /\ svcs'[i].state \in {"Down", "Failed"}
             /\ svcs'[i].state # svcs[i].state) =>
            svcs'[i].target = collapse_target(svcs[i].target)]_vars
  /\ [](pc = "poll" =>
          \A i \in Idx :
            /\ svcs[i].state = "Down" => svcs[i].target = "Down"
            /\ svcs[i].state = "Failed" => svcs[i].target \notin Transient)

\* what holds of the transient targets: the entries collapse them, and in
\* poll a service that is Down has the target Down
TransientCollapsed ==
  /\ [][\A i \in Idx :
          (pc = "scan" /\ svcs'[i].state \in {"Down", "Failed"}
             /\ svcs'[i].state # svcs[i].state) =>
            svcs'[i].target = collapse_target(svcs[i].target)]_vars
  /\ [](pc = "poll" =>
          \A i \in Idx : svcs[i].state = "Down" => svcs[i].target = "Down")

\* the loop is in poll and a service that is Failed has a transient target
FailedTransient ==
  /\ pc = "poll"
  /\ \E i \in Idx : svcs[i].state = "Failed" /\ svcs[i].target \in Transient


----------------------------------------------------------------------------
(* The wait for the setup child (next_state.rs, from_setting_up)           *)

\* the setup child of i, or the intermediate supervisor it runs under, is a
\* live process
SetupRunning(i) ==
  \E p \in Pids : procs[p].svc = i /\ procs[p].phase = "setup" /\ procs[p].alive

\* the step by which a service with a setup program may leave SettingUp
SetupLeft(i) ==
  \/ /\ svcs'[i].state = "Starting"
     /\ ~SetupRunning(i) /\ svcs[i].exit_code = 0
  \/ /\ svcs'[i].state \in {"Retrying", "Failed"}
     /\ ~SetupRunning(i)
     \* the setup failed, or it succeeded and the run program was not forked
     /\ svcs[i].exit_code # 0 \/ procs' = procs
  \/ /\ svcs'[i].state = "ForceDown"
     /\ setup_time_elapsed(svcs[i], cfg[i], now)

\* C32: a service with a setup program leaves SettingUp for Starting only
\* after the setup child of this attempt has exited with status 0, for
\* Retrying or Failed only after that child has exited, and otherwise, the
\* child (direct or under an intermediate supervisor) still running, only for
\* ForceDown when max_setup_time has elapsed.
C32_SetupWaits ==
  [][\A i \in Idx :
       (cfg[i].setup # "None" /\ svcs[i].state = "SettingUp"
          /\ svcs'[i].state # "SettingUp") => SetupLeft(i)]_vars

\* the same for the services whose setup child is spawned directly: this
\* part holds
SetupWaitsDirect ==
  [][\A i \in Idx :
       (cfg[i].setup # "None" /\ ~cfg[i].stop_all_children
          /\ svcs[i].state = "SettingUp" /\ svcs'[i].state # "SettingUp") =>
         SetupLeft(i)]_vars

\* a service has left SettingUp while its setup runs under a live supervisor
SetupAbandoned ==
  \E i \in Idx :
    /\ cfg[i].setup # "None" /\ svcs[i].state \in {"Retrying", "Failed", "Starting"}
    /\ \E p \in Pids : procs[p].svc = i /\ procs[p].phase = "setup" /\ procs[p].alive
                         /\ procs[p].kind = "supervisor"


----------------------------------------------------------------------------
(* The stable window of Up (next_state.rs, from_up; poll.rs)               *)

\* the state main() enters its loop in with the table t, not as PID 1
StartedWith(t) ==
  /\ check_config(t)
  /\ cfg = generate_internal_config(t)
  /\ svcs = initialize(cfg, 0)
  /\ now = 0
  /\ pc = "scan"
  /\ shutting_down = FALSE
  /\ exit_status = NoCode
  /\ procs = [p \in Pids |-> FreeProc]
  /\ ipc = NoIpc
  /\ commands = 0
  /\ hist = [i \in DOMAIN cfg |-> NoHist]
  /\ is_pid1 = FALSE
  /\ session = <<>>
  /\ fds = {}
  /\ saved = NoSaved
  /\ pipes = NoPipes
  /\ peers = [q \in Peers |-> NewPeer]
  /\ served = NoServed
  /\ images = {cfg}
  /\ wire = NoWire

\* m has a setup program and no run program (it mounts, loads or configures
\* something and is Up from then on); d runs a program.  Both are retried
TableOneshot ==
  Named(<<Override(DEFAULT_SERVICE,
       [setup |-> "Exec", max_attempt_count |-> 3]),
    Override(DEFAULT_SERVICE,
       [run |-> "Exec", max_attempt_count |-> 3])>>)

InitStable == StartedWith(TableOneshot)

NextStable ==
  \/ Transition
  \/ ScanDone
  \/ PollTimeout
  \/ HandleSigchld
  \/ \E p \in Pids : ChildExit(p)

\* the loop runs on: a scan step is taken when a record is dirty, the scan
\* ends when none is, poll returns when its timeout is over and a pending
\* SIGCHLD is handled
SpecStable ==
  /\ InitStable
  /\ [][NextStable]_vars
  /\ WF_vars(Transition) /\ WF_vars(ScanDone) /\ WF_vars(PollTimeout)
  /\ WF_vars(HandleSigchld)

\* i is Up, has failed before and has been Up for the stable window
StableDue(i) ==
  /\ svcs[i].state = "Up" /\ svcs[i].target \in {"Up", "Once"}
  /\ svcs[i].attempt_count > 0
  /\ millis_since(now, svcs[i].time) >= UP_TIME_MILLIS

\* C33: every service that is Up with an upward target and attempt_count > 0
\* when the stable window of 1000 ms is over eventually has its attempt_count
\* reset to 0 while it remains Up, or has left Up; and a service that is Up
\* with attempt_count = 0 contributes no deadline to the poll timeout.
C33_StableReset ==
  /\ \A i \in 1..2 :
       StableDue(i) ~> (svcs[i].state # "Up" \/ svcs[i].attempt_count = 0)
  /\ [](\A i \in Idx :
          (svcs[i].state = "Up" /\ svcs[i].attempt_count = 0) =>
            remaining_millis(cfg, svcs, i, now) = {})

\* the same for a service that runs a program, as long as no service without
\* a run program is Up with failures counted: this part holds
StableResetRun ==
  /\ \A i \in 1..2 :
       (/\ StableDue(i) /\ cfg[i].run # "None"
        /\ \A k \in Idx : cfg[k].run = "None" => svcs[k].attempt_count = 0)
         ~> (svcs[i].state # "Up" \/ svcs[i].attempt_count = 0)
  /\ [](\A i \in Idx :
          (svcs[i].state = "Up" /\ svcs[i].attempt_count = 0) =>
            remaining_millis(cfg, svcs, i, now) = {})

\* a service without a run program is Up beyond the window with its failures
\* still counted, clean, and the poll timeout is 0
StableNever ==
  /\ pc = "poll"
  /\ \E i \in Idx :
       /\ StableDue(i) /\ cfg[i].run = "None" /\ ~svcs[i].dirty
       /\ calculate_poll_timeout(cfg, svcs, now) = [timeout |-> {0}, svc |-> i]
       /\ hist[i].other


----------------------------------------------------------------------------
(* The dirty scan (main.rs, the inner loop)                                *)

\* the attempts the service of TableSpin is given
SpinAttempts == 8

\* k runs a program, is retried without delay and gives up at the eighth
\* failure; l wants k
TableSpin ==
  Named(<<Override(DEFAULT_SERVICE,
       [run |-> "Exec", retry_wait_period_millis |-> 0,
        max_attempt_count |-> SpinAttempts]),
    Override(DEFAULT_SERVICE, [wants |-> {1}])>>)

\* the first scan of the server, started with any of the tables, and nothing
\* else: no signal, no request, no timeout
InitScan ==
  \E t \in Tables \cup {TableSpin, TableOnce, TableOneshot} : StartedWith(t)

NextScan == Transition \/ ScanDone

\* the inner loop runs while a record is dirty and ends when none is
SpecScan ==
  /\ InitScan
  /\ [][NextScan]_vars
  /\ WF_vars(Transition) /\ WF_vars(ScanDone)

\* C34: every dirty scan terminates, after a number of transitions that is
\* bounded in terms of the service count: in one pass a service changes its
\* state a bounded number of times (it is in each of the states at most once,
\* and a service that was retried n times in the pass has changed its state
\* at least 2n times), whatever the configuration, zero retry delay and spawn
\* failures included.
C34_ScanTerminates ==
  /\ (pc = "scan") ~> (pc # "scan")
  /\ [](\A i \in Idx : 2 * svcs[i].attempt_count <= Cardinality(States))

\* what holds: the scan of a table whose services give up after a number of
\* attempts terminates
ScanEnds == (pc = "scan") ~> (pc # "scan")

\* in its first pass, with no time passed and no event handled, a service has
\* failed more often than it has states
ScanSpins ==
  /\ pc = "scan" /\ now = 0
  /\ \E i \in Idx : 2 * svcs[i].attempt_count > Cardinality(States)

----------------------------------------------------------------------------
(* Deadlines and the poll timeout *)

\* the time service i may spend in its state before next_state.rs moves it
\* on by itself (Option as a set): the *_elapsed tests of from_setting_up,
\* from_starting, from_up, from_stopping, from_cleaning_up, from_retrying
\* and from_forced_down
StateLimit(i) ==
  LET some(l) == IF l = NoLimit THEN {} ELSE {l}
  IN  CASE svcs[i].state = "SettingUp" -> some(cfg[i].max_setup_time_millis)
        [] svcs[i].state = "Starting" -> some(cfg[i].max_ready_time_millis)
        [] svcs[i].state = "Up" /\ svcs[i].attempt_count > 0 -> {UP_TIME_MILLIS}
        [] svcs[i].state = "Stopping" -> some(cfg[i].max_stop_time_millis)
        [] svcs[i].state = "CleaningUp" -> some(cfg[i].max_cleanup_time_millis)
        [] svcs[i].state = "Retrying" /\ svcs[i].target \in {"Up", "Once"} ->
             {delay_of(cfg[i], svcs[i])}
        [] svcs[i].state = "ForceDown" /\ has_pid(svcs[i]) -> {FORCED_DOWN_TIME_MILLIS}
        [] OTHER -> {}

\* the timeout handed to poll() is the least remaining time of the services
\* that service_timeout gives one, within [0, i32::MAX], and none when no
\* service has one; its owner is a service with that remaining time
SoonestDeadline ==
  pc = "poll" =>
    LET r == calculate_poll_timeout(cfg, svcs, now)
    IN  /\ (r.timeout = {}) <=> (\A i \in Idx : service_timeout(svcs[i], cfg[i], now) = {})
        /\ \A t \in r.timeout :
             /\ 0 <= t /\ t <= I32_MAX
             /\ r.svc \in Idx
             /\ \A x \in service_timeout(svcs[r.svc], cfg[r.svc], now) :
                  t = clamp(x, 0, I32_MAX)
             /\ \A i \in Idx : \A x \in service_timeout(svcs[i], cfg[i], now) :
                  t <= clamp(x, 0, I32_MAX)

\* C35: the timeout handed to poll() is the least remaining time of the
\* services whose state has a deadline, within [0, i32::MAX], and none when
\* there is no such service; so poll() never blocks beyond the deadline of a
\* state whose exit depends on elapsed time.
C35_PollDeadlines ==
  /\ SoonestDeadline
  /\ pc = "poll" =>
       \A i \in Idx : \A l \in StateLimit(i) : WokenAfter(i, l)

\* the server waits in poll() without a timeout while the state of a service
\* has a deadline
DeadlineUnwatched ==
  /\ pc = "poll"
  /\ calculate_poll_timeout(cfg, svcs, now).timeout = {}
  /\ \E i \in Idx : StateLimit(i) # {}

----------------------------------------------------------------------------
(* The settle pipe and the stable states *)

\* the read end of the settle pipe of service i holds a byte
SettleReadable(i) == svcs[i].settle_pipe[1] \in pipes.settle

\* C36: the read end of the settle pipe of a service is readable exactly
\* when the service is in a stable state (Down, Up, Failed, CannotStop),
\* from the moment QuerySettleFd created the pipe.
C36_SettleReadable ==
  \A i \in Idx :
    svcs[i].settle_pipe # NoPipe => (SettleReadable(i) <=> stable(svcs[i].state))

\* every state the state machine enters while the pipe exists leaves the
\* pipe readable if and only if the state is stable
SettleTracksEntries ==
  [][\A i \in Idx :
       (svcs[i].settle_pipe # NoPipe /\ svcs'[i].state # svcs[i].state) =>
         (svcs'[i].settle_pipe[1] \in pipes'.settle <=> stable(svcs'[i].state))]_vars

\* QuerySettleFd has just created the pipe of a service that is stable, and
\* the pipe is empty
SettleCreatedEmpty ==
  \E i \in Idx :
    /\ ipc.req = "QuerySettleFd" /\ ipc.resp = "SettleFd"
    /\ svcs[i].settle_pipe # NoPipe
    /\ stable(svcs[i].state)
    /\ ~SettleReadable(i)

----------------------------------------------------------------------------
(* A settle command and a supervisor on the request pipe *)

\* what the supervisor of service i sends: ServiceStarting with the pid of
\* the program it forked
SupervisorInputs ==
  {Request_serialize(Request("ServiceStarting", 0, SettleTable[1].name, pid)).data :
     pid \in {MaxPid}}

\* the supervisor: it connects, and takes the lock around its one message
SupervisorPeer ==
  \/ DrainDone(2)
  \/ Lock(2)
  \/ \E b \in SupervisorInputs : WriteRequest(2, b)
  \/ Receive(2)
  \/ Unlock(2)

\* the server, whose children do not exit, the command and the supervisor
NextSettleLock ==
  \/ Transition
  \/ ScanDone
  \/ PollTimeout
  \/ ServeRequest
  \/ SettleClient
  \/ SupervisorPeer

SpecSettleLock == InitSettle /\ [][NextSettleLock]_vars

\* C37: a settle command that is blocked in poll() on the settle pipe does
\* not hold the write lock of the request pipe, so a peer that wants the
\* lock while the command waits is not kept from it by the command.
C37_SettleUnlocked ==
  \A q \in Peers :
    peers[q].pc = "settle_poll" =>
      /\ pipes.lock # q
      /\ \A o \in Peers \ {q} : peers[o].pc = "connected" => pipes.lock = 0

\* the supervisor holds the lock and has been answered while the settle
\* command waits in poll()
SettleOvertaken ==
  /\ peers[1].pc = "settle_poll"
  /\ peers[2].pc = "received"
  /\ pipes.lock = 2

----------------------------------------------------------------------------
(* Reaping (handle_signal.rs, handle_sigchld) *)

\* the server with a table of sample records, the children of it, and one
\* peer that reports the first child as that of the last service
NextReap ==
  \/ Transition
  \/ ScanDone
  \/ HandleSigchld
  \/ \E p \in Pids : ChildExit(p)
  \/ \E p \in Pids : SupervisorFork(p)
  \/ HandlePidName("ServiceStarting", 2, Len(cfg))

\* the sample records whose counters and times the server can have reached
\* within the bounds of the model
ReapRecords(k) ==
  {r \in SampleRecords(cfg, k) :
     /\ r.attempt_count <= 2 /\ r.time <= MaxNow
     /\ r.exit_code \in {NoCode, 143}
     /\ r.target \in {"Up", "Restart"}
     /\ r.state \in {"Up", "Stopping"}
     /\ r.pid \in {NoPid, k + 1, 80000 + k}
     /\ ~r.dirty}

\* the process table that goes with it: a supervisor has yet to fork
ReapProcs(s) ==
  [p \in Pids |->
     IF SampleProcs(s)[p].kind = "supervisor"
     THEN [SampleProcs(s)[p] EXCEPT !.stage = "forking"]
     ELSE SampleProcs(s)[p]]

\* the server polls with such a table
InitReap ==
  /\ cfg = generate_internal_config(TableSession)
  /\ \E k \in DOMAIN cfg : \E r \in ReapRecords(k) :
       svcs = [i \in DOMAIN cfg |-> IF i = k THEN r ELSE SampleBase(i)]
  /\ now = Tick
  /\ pc = "poll"
  /\ shutting_down = FALSE
  /\ exit_status = NoCode
  /\ procs = ReapProcs(svcs)
  /\ ipc = NoIpc
  /\ commands = 0
  /\ hist = [i \in DOMAIN cfg |-> NoHist]
  /\ is_pid1 = FALSE
  /\ session = <<>>
  /\ fds = UNION {pipe_fds(svcs[i].stdin_pipe) \cup pipe_fds(svcs[i].settle_pipe) :
                    i \in DOMAIN svcs}
  /\ saved = NoSaved
  /\ pipes = NoPipes
  /\ peers = [q \in Peers |-> NewPeer]
  /\ served = NoServed
  /\ images = {generate_internal_config(t) :
                  t \in {t \in SessionImages : check_config(t)}}
  /\ wire = NoWire

SpecReap == InitReap /\ [][NextReap]_vars

\* service i is the first whose pid is the exited child p
DirectMatch(i, p) ==
  /\ svcs[i].pid = p
  /\ \A k \in Idx : k < i => svcs[k].pid # p

\* no service has the pid p, and i is the first whose supervisor_pid is p
SupervisorMatch(i, p) ==
  /\ svcs[i].supervisor_pid = p
  /\ \A k \in Idx : svcs[k].pid # p
  /\ \A k \in Idx : k < i => svcs[k].supervisor_pid # p

\* C38: when SIGCHLD is handled every exited child is reaped; each reaped
\* pid is matched first against the pid of the services and only then
\* against their supervisor_pid; a direct match clears the pid of that
\* service, a supervisor match clears its pid and its supervisor_pid, and
\* either records the exit code, closes both ends of stdin_pipe and marks the
\* service dirty; no other service is modified.
C38_Reap ==
  [][(pc = "poll" /\ Zombies # {} /\ pc' = "scan" /\ procs' # procs) =>
       /\ \A p \in Zombies : procs'[p] = FreeProc
       /\ \A i \in Idx :
            LET direct == {p \in Zombies : DirectMatch(i, p)}
                super  == {p \in Zombies : SupervisorMatch(i, p)}
            IN  IF direct \cup super = {}
                THEN svcs'[i] = svcs[i]
                ELSE /\ svcs'[i].pid = NoPid
                     /\ svcs'[i].supervisor_pid =
                          IF super # {} THEN NoPid ELSE svcs[i].supervisor_pid
                     /\ svcs'[i].exit_code \in {procs[p].code : p \in direct \cup super}
                     /\ svcs'[i].stdin_pipe = NoPipe
                     /\ pipe_fds(svcs[i].stdin_pipe) \cap fds' = {}
                     /\ svcs'[i].dirty
                     /\ svcs'[i] = [svcs[i] EXCEPT !.pid = svcs'[i].pid,
                                      !.supervisor_pid = svcs'[i].supervisor_pid,
                                      !.exit_code = svcs'[i].exit_code,
                                      !.stdin_pipe = NoPipe, !.dirty = TRUE]]_vars

\* the supervisor of a log sink, whose pid another service has as its own
\* pid, has exited: a reap will match the other service
ReapCollision ==
  \E i, k \in Idx :
    /\ i # k
    /\ svcs[i].pid \in Zombies
    /\ svcs[k].supervisor_pid = svcs[i].pid
    /\ procs[svcs[i].pid].kind = "supervisor"
    /\ pc = "poll"

\* the child of a service with a stdin_pipe was reaped and the pipe closed
ReapedLogger ==
  \E i \in Idx :
    /\ cfg[i].is_logger
    /\ svcs[i].stdin_pipe = NoPipe
    /\ svcs[i].pid = NoPid
    /\ svcs[i].exit_code \in {0, 1}
    /\ svcs[i].dirty
    /\ fds \cap {10, 11} = {}
    /\ pc = "scan"

----------------------------------------------------------------------------
(* Shutdown *)

\* w signals its readiness itself and may take any time to do so
TableWaits ==
  Named(<<Override(DEFAULT_SERVICE,
       [run |-> "Exec", ready |-> "Notify", max_ready_time_millis |-> NoLimit]),
    Override(DEFAULT_SERVICE, [run |-> "Exec", cleanup |-> "Exec"])>>)

InitShutdown == \E t \in {TableWaits, TableConflicts, TableSupervised} : StartedWith(t)

\* a child that was sent a signal exits
SignalledExit(p) == procs[p].sigs # {} /\ ChildExit(p)

\* the server, its children and supervisors, and SIGINT or SIGTERM; no
\* request but the supervisors' own
NextShutdown ==
  \/ Transition
  \/ ScanDone
  \/ PollTimeout
  \/ HandleSigchld
  \/ HandleShutdownSignal
  \/ \E p \in Pids : HandleServiceStarting(p)
  \/ \E p \in Pids : ChildExit(p)
  \/ \E p \in Pids : SupervisorFork(p)
  \/ \E p \in Pids : SupervisorSigterm(p)
  \/ \E p \in Pids : SupervisorReap(p)

\* the server and the supervisors run, and every child that was sent
\* SIGTERM or SIGKILL exits
SpecShutdown ==
  /\ InitShutdown
  /\ [][NextShutdown]_vars
  /\ WF_vars(Transition)
  /\ WF_vars(ScanDone)
  /\ WF_vars(PollTimeout)
  /\ WF_vars(HandleSigchld)
  /\ \A p \in Pids :
       /\ WF_vars(HandleServiceStarting(p))
       /\ WF_vars(SupervisorFork(p))
       /\ WF_vars(SupervisorSigterm(p))
       /\ WF_vars(SupervisorReap(p))
       /\ SF_vars(SignalledExit(p))

\* C39: after the server, not being PID 1, has received SIGINT or SIGTERM,
\* with no later request and with children that exit once they are sent
\* SIGTERM or SIGKILL, every service reaches Down, Failed or CannotStop and
\* the server exits: no service stays in WaitingToStop, Stopping, ForceDown
\* or a startup state for ever.
C39_Shutdown == shutting_down ~> (pc = "exited" /\ all_down_or_err(svcs))

\* the same when no service is waiting without a limit for a child to
\* become ready as the signal arrives, early enough for every deadline of
\* the shutdown to lie within the time the model covers
ShutdownBounded ==
  (shutting_down /\ now = 0 /\ \A i \in Idx :
     svcs[i].state \in {"SettingUp", "Starting"} =>
       /\ cfg[i].max_setup_time_millis # NoLimit
       /\ cfg[i].max_ready_time_millis # NoLimit)
    ~> (pc = "exited" /\ all_down_or_err(svcs))

\* the server is shutting down and waits without a timeout, no child has
\* exited or been signalled, and a service is Starting
ShutdownWaits ==
  /\ shutting_down
  /\ pc = "poll"
  /\ Zombies = {}
  /\ calculate_poll_timeout(cfg, svcs, now).timeout = {}
  /\ \A p \in Pids : procs[p].alive => procs[p].sigs = {}
  /\ \E i \in Idx : svcs[i].state = "Starting" /\ svcs[i].target = "Down"

\* the server has shut down after stopping a child
ShutdownDone ==
  /\ pc = "exited"
  /\ exit_status = 0
  /\ \E i \in Idx : svcs[i].state = "Down" /\ svcs[i].exit_code = 128 + SIGTERM

----------------------------------------------------------------------------
(* A service that is told to stop *)

\* s has a setup, a run and a cleanup program
TableStops ==
  Named(<<Override(DEFAULT_SERVICE, [setup |-> "Exec", run |-> "Exec", cleanup |-> "Exec"]),
    DEFAULT_SERVICE>>)

InitStopped == \E t \in {TableWaits, TableStops} : StartedWith(t)

\* the server, its children, which exit when they choose to, and one
\* SetTargetDown
NextStopped ==
  \/ Transition
  \/ ScanDone
  \/ PollTimeout
  \/ HandleSigchld
  \/ \E i \in Idx : HandleSetTarget(i, "Down")
  \/ \E p \in Pids : ChildExit(p)

SpecStopped ==
  /\ InitStopped
  /\ [][NextStopped]_vars
  /\ WF_vars(Transition)
  /\ WF_vars(ScanDone)
  /\ WF_vars(PollTimeout)
  /\ WF_vars(HandleSigchld)

\* the server has just answered Okay to SetTargetDown for service i
ToldDown(i) == Answered("SetTargetDown") /\ ipc.svc = i

\* service i has come to rest
Stopped(i) == svcs[i].state \in {"Down", "Failed", "CannotStop"}

\* C40: after SetTargetDown(S) was answered Okay, with no later command that
\* raises the target of S, S reaches Down, Failed or CannotStop from whatever
\* state it was in, SettingUp and Starting included.
C40_TargetDown == \A i \in 1..2 : ToldDown(i) ~> Stopped(i)

\* a service with target Down that is neither at rest nor waiting without a
\* limit for its child to become ready has a deadline, or a child that was
\* sent a signal, or a child that has exited and is about to be reaped
TargetDownPending ==
  pc = "poll" =>
    \A i \in Idx :
      ( /\ svcs[i].target = "Down" /\ ~Stopped(i)
        /\ ~(svcs[i].state = "Starting" /\ cfg[i].max_ready_time_millis = NoLimit) )
      => \/ remaining_millis(cfg, svcs, i, now) # {}
         \/ svcs[i].pid # NoPid /\ procs[svcs[i].pid].sigs # {}
         \/ Zombies # {}

\* the service was told to stop, is Starting with target Down, its child
\* runs unsignalled, and the server waits without a timeout
TargetDownWaits ==
  \E i \in Idx :
    /\ svcs[i].state = "Starting" /\ svcs[i].target = "Down"
    /\ ~shutting_down
    /\ commands = MaxCommands
    /\ pc = "poll"
    /\ Zombies = {}
    /\ svcs[i].pid # NoPid /\ procs[svcs[i].pid].alive /\ procs[svcs[i].pid].sigs = {}
    /\ calculate_poll_timeout(cfg, svcs, now).timeout = {}

====
